---- MODULE Spec2Model ----
(***************************************************************************)
(* Audio tuner: WAV codec (helloworld.c, phase_voc.c), phase vocoder       *)
(* (phase_voc.c) and PSOLA (psola.c) pitch shifting engines.               *)
(*                                                                         *)
(* Numbers.  C float samples are modelled in fixed point.  The codec uses  *)
(* units of 1/65536 (Q16): int16 / 32768.0f is then exactly 2 * int16 and  *)
(* (l + r) / 65536.0f is exactly l + r.  uint32_t values that are written  *)
(* to a header are kept as four little-endian bytes, so that arithmetic    *)
(* modulo 2^32 is exact.  A float stored in a file is the four bytes of    *)
(* its fixed-point value (an injective encoding, as the bit pattern is).   *)
(***************************************************************************)
EXTENDS Integers, Sequences, FiniteSets, TLC

VARIABLES
    buf,      \* the AudioBuffer the caller holds for a save (NoBuffer: none)
    file,     \* the bytes of the WAV file on storage
    fileBy,   \* what produced the file: "none", "given", or the writer's name
    call,     \* the arguments of the last writer call
    loaded,   \* what the last load returned
    input,    \* the input buffer handed to a pitch shifting engine
    shifted,  \* what the engine returned
    tuner,    \* the locals and statics of main's loop
    probe,    \* the arguments of a pitch detection call
    detected, \* what the detection returned
    phase,    \* the argument and the result of a wrap_phase call
    capture   \* the recording of state 2: its file, position and counters

vars == <<buf, file, fileBy, call, loaded, input, shifted, tuner, probe, detected, phase,
          capture>>

-----------------------------------------------------------------------------
(* Bytes and fixed-width integers *)

Q16 == 65536

Abs(x) == IF x < 0 THEN -x ELSE x
Min(a, b) == IF a < b THEN a ELSE b
Max(a, b) == IF a > b THEN a ELSE b

\* C integer division and float-to-int conversion truncate toward zero.
TruncDiv(a, b) == IF a >= 0 THEN a \div b ELSE -((-a) \div b)

\* A uint16_t / short as two little-endian bytes.
LE16(n) == <<n % 256, (n \div 256) % 256>>

\* A value 0 .. 2^31-1 as the four little-endian bytes of a uint32_t.
U32(n) == <<n % 256, (n \div 256) % 256, (n \div 65536) % 256, (n \div 16777216) % 256>>

\* The value of four little-endian bytes (the models' files keep it below 2^31).
U32Val(b) == b[1] + 256 * b[2] + 65536 * b[3] + 16777216 * b[4]

U16Val(b) == b[1] + 256 * b[2]

\* A signed short read from two bytes.
I16Val(b) == IF U16Val(b) >= 32768 THEN U16Val(b) - 65536 ELSE U16Val(b)

\* A signed short written as two bytes.
I16Bytes(q) == LE16((q + 65536) % 65536)

\* The four bytes of a float whose fixed-point value is v (two's complement).
F32Bytes(v) ==
    IF v >= 0 THEN U32(v)
    ELSE LET u == U32(-v - 1) IN <<255 - u[1], 255 - u[2], 255 - u[3], 255 - u[4]>>

\* The fixed-point value of the float stored in four bytes.
F32Val(b) ==
    IF b[4] < 128 THEN U32Val(b)
    ELSE -(U32Val(<<255 - b[1], 255 - b[2], 255 - b[3], 255 - b[4]>>) + 1)

\* uint32_t addition: byte-wise with carry, the carry out of byte 4 dropped.
RECURSIVE AddBytes(_, _, _, _)
AddBytes(a, b, i, carry) ==
    IF i > 4 THEN <<>>
    ELSE LET s == a[i] + b[i] + carry
         IN  <<s % 256>> \o AddBytes(a, b, i + 1, s \div 256)

Add32(a, b) == AddBytes(a, b, 1, 0)

\* uint32_t multiplication: schoolbook columns, the product cut to 4 bytes.
RECURSIVE ColSum(_, _, _, _)
ColSum(a, b, k, i) ==
    IF i > k THEN 0 ELSE a[i] * b[k + 1 - i] + ColSum(a, b, k, i + 1)

RECURSIVE MulBytes(_, _, _, _)
MulBytes(a, b, k, carry) ==
    IF k > 4 THEN <<>>
    ELSE LET s == ColSum(a, b, k, 1) + carry
         IN  <<s % 256>> \o MulBytes(a, b, k + 1, s \div 256)

Mul32(a, b) == MulBytes(a, b, 1, 0)

\* Chunk tags as ASCII bytes.
TagRIFF == <<82, 73, 70, 70>>
TagWAVE == <<87, 65, 86, 69>>
TagFmt  == <<102, 109, 116, 32>>
TagData == <<100, 97, 116, 97>>
TagLIST == <<76, 73, 83, 84>>
TagJunk == <<106, 117, 110, 107>>

\* Concatenation of a sequence of byte sequences.
RECURSIVE Flatten(_)
Flatten(ss) == IF ss = <<>> THEN <<>> ELSE Head(ss) \o Flatten(Tail(ss))

\* fread / f_read of n bytes at offset pos (0-based): the bytes that exist.
ReadAt(f, pos, n) ==
    IF pos >= Len(f) THEN <<>> ELSE SubSeq(f, pos + 1, Min(pos + n, Len(f)))

-----------------------------------------------------------------------------
(* AudioBuffer and the results of a load *)

NoBuffer == [isNull |-> TRUE, length |-> 0, sample_rate |-> 0, data |-> <<>>]

AudioBuffer(len, rate, d) ==
    [isNull |-> FALSE, length |-> len, sample_rate |-> rate, data |-> d]

\* ret: "buffer" (a pointer to abuf), "NULL", "hang" (the call never returns),
\* "none" (no load has run).
LoadResult(r, by, b) == [ret |-> r, by |-> by, abuf |-> b]

NoLoad == LoadResult("none", "none", NoBuffer)

-----------------------------------------------------------------------------
(* WAV writers *)

\* A variant of wav_header that counts the whole header in the RIFF size
\* (44 + data size); the header property must tell it from wav_header.
wav_header_riff44(nsamples, fs, bits, ch) ==
    LET byteRate   == Mul32(Mul32(fs, U32(ch)), U32(bits \div 8))
        blockAlign == (ch * (bits \div 8)) % 65536
        dataSize   == Mul32(nsamples, U32(blockAlign))
        riffSize   == Add32(U32(44), dataSize)
    IN  TagRIFF \o riffSize \o TagWAVE
        \o TagFmt \o <<16, 0, 0, 0>>
        \o <<1, 0>>
        \o <<ch % 256, 0>>
        \o fs \o byteRate
        \o LE16(blockAlign) \o LE16(bits)
        \o TagData \o dataSize

\* wav_header: the 44 header bytes.  nsamples and fs are uint32_t (four
\* bytes), bits and ch are uint16_t.
wav_header(nsamples, fs, bits, ch) ==
    LET byteRate   == Mul32(Mul32(fs, U32(ch)), U32(bits \div 8))
        blockAlign == (ch * (bits \div 8)) % 65536
        dataSize   == Mul32(nsamples, U32(blockAlign))
        riffSize   == Add32(U32(36), dataSize)
    IN  TagRIFF \o riffSize \o TagWAVE
        \o TagFmt \o <<16, 0, 0, 0>>
        \o <<1, 0>>
        \o <<ch % 256, 0>>
        \o fs \o byteRate
        \o LE16(blockAlign) \o LE16(bits)
        \o TagData \o dataSize

\* save_wav_to_sd, the conversion of one sample: clamp to [-1, 1], then
\* (int16_t)(sample * 32767.0f).
ToInt16(sample) ==
    LET hi == IF sample > Q16 THEN Q16 ELSE sample
        cl == IF hi < -Q16 THEN -Q16 ELSE hi
    IN  TruncDiv(cl * 32767, Q16)

\* save_wav_to_sd: the file written when f_open and every f_write succeed.
save_wav_to_sd(audio) ==
    wav_header(U32(audio.length), U32(audio.sample_rate), 16, 1)
    \o Flatten([i \in 1..audio.length |-> I16Bytes(ToInt16(audio.data[i]))])

\* write_wav_file: the file written when fopen succeeds (32-bit float, mono).
write_wav_file(audio) ==
    LET data_size == audio.length * 4
        file_size == 36 + data_size
        byte_rate == audio.sample_rate * 4
    IN  TagRIFF \o U32(file_size) \o TagWAVE
        \o TagFmt \o U32(16)
        \o LE16(3) \o LE16(1)
        \o U32(audio.sample_rate) \o U32(byte_rate)
        \o LE16(4) \o LE16(32)
        \o TagData \o U32(data_size)
        \o Flatten([i \in 1..audio.length |-> F32Bytes(audio.data[i])])

-----------------------------------------------------------------------------
(* WAV readers *)

LOAD_CHUNK_SIZE == 1024

\* load_wav_from_sd, the read loop: f_read returns FR_OK and the bytes that
\* exist; br / 2 samples are converted.  A read of zero bytes before
\* num_samples are in leaves samples_read unchanged for ever.
RECURSIVE LoadLoop(_, _, _, _, _)
LoadLoop(f, pos, num_samples, samples_read, data) ==
    IF samples_read >= num_samples THEN [hang |-> FALSE, data |-> data]
    ELSE LET samples_to_read == Min(num_samples - samples_read, LOAD_CHUNK_SIZE)
             chunk == ReadAt(f, pos, samples_to_read * 2)
             br    == Len(chunk)
             conv  == [i \in 1..(br \div 2) |->
                          2 * I16Val(<<chunk[2 * i - 1], chunk[2 * i]>>)]
         IN  IF br = 0
             THEN [hang |-> TRUE, data |-> data]
             ELSE LoadLoop(f, pos + br, num_samples,
                           samples_read + br \div 2, data \o conv)

\* load_wav_from_sd on a file that f_open opens.
load_wav_from_sd(f) ==
    LET hdr == ReadAt(f, 0, 44)
    IN  IF Len(hdr) # 44 THEN LoadResult("NULL", "load_wav_from_sd", NoBuffer)
        ELSE IF SubSeq(hdr, 1, 4) # TagRIFF \/ SubSeq(hdr, 9, 12) # TagWAVE
        THEN LoadResult("NULL", "load_wav_from_sd", NoBuffer)
        ELSE LET sample_rate     == U32Val(SubSeq(hdr, 25, 28))
                 bits_per_sample == U16Val(SubSeq(hdr, 35, 36))
                 data_size       == U32Val(SubSeq(hdr, 41, 44))
                 num_samples     == data_size \div 2
             IN  IF bits_per_sample # 16
                 THEN LoadResult("NULL", "load_wav_from_sd", NoBuffer)
                 ELSE LET r == LoadLoop(f, 44, num_samples, 0, <<>>)
                      IN  IF r.hang
                          THEN LoadResult("hang", "load_wav_from_sd", NoBuffer)
                          ELSE LoadResult("buffer", "load_wav_from_sd",
                                   AudioBuffer(num_samples, sample_rate, r.data))

\* fread into a variable that holds old: the bytes read replace its first bytes.
Overlay(old, read) == read \o SubSeq(old, Len(read) + 1, Len(old))

\* read_wav_file, the search for the data chunk.  chunk_id and chunk_size
\* are locals without initializer: before the first fread they hold what the
\* stack held.
RECURSIVE FindData(_, _, _, _)
FindData(f, pos, chunk_id, chunk_size) ==
    LET id == ReadAt(f, pos, 4)
    IN  IF Len(id) # 4
        THEN [chunk_id |-> Overlay(chunk_id, id), chunk_size |-> chunk_size,
              pos |-> pos + Len(id)]
        ELSE LET sz == Overlay(chunk_size, ReadAt(f, pos + 4, 4))
             IN  IF id = TagData
                 THEN [chunk_id |-> id, chunk_size |-> sz, pos |-> pos + 8]
                 ELSE FindData(f, pos + 8 + U32Val(sz), id, sz)

\* read_wav_file, temp: chunk_size bytes from malloc, filled by one fread
\* with the bytes that exist; the rest keeps what the heap held (fill).
TempBytes(f, pos, chunk_size, fill) ==
    LET got == ReadAt(f, pos, chunk_size)
    IN  got \o [i \in 1..(chunk_size - Len(got)) |-> fill]

\* read_wav_file, the conversion of the 16-bit PCM payload.
ReadPcm16(temp, num_samples, num_channels) ==
    LET t(k) == I16Val(<<temp[2 * k + 1], temp[2 * k + 2]>>)
    IN  [i \in 1..num_samples |->
            IF num_channels = 2 THEN t(2 * (i - 1)) + t(2 * (i - 1) + 1)
            ELSE 2 * t(i - 1)]

\* A variant of the float conversion that clamps to [-1, 1]; the float round
\* trip must tell it from ReadFloat32.
ReadFloat32Clamped(temp, num_samples, num_channels) ==
    LET t(k) == F32Val(SubSeq(temp, 4 * k + 1, 4 * k + 4))
    IN  [i \in 1..num_samples |-> Max(-Q16, Min(Q16, t(i - 1)))]

\* read_wav_file, the conversion of the 32-bit float payload.
ReadFloat32(temp, num_samples, num_channels) ==
    LET t(k) == F32Val(SubSeq(temp, 4 * k + 1, 4 * k + 4))
    IN  [i \in 1..num_samples |->
            IF num_channels = 2
            THEN TruncDiv(t(2 * (i - 1)) + t(2 * (i - 1) + 1), 2)
            ELSE t(i - 1)]

\* read_wav_file on a file that fopen opens and that holds the 36 bytes of
\* the RIFF header and the fmt chunk.  stack: what chunk_id and chunk_size
\* hold before the first fread, and the byte malloc'ed memory holds.
read_wav_file(f, stack) ==
    LET riff            == ReadAt(f, 0, 4)
        wave            == ReadAt(f, 8, 4)
        fmt_size        == U32Val(ReadAt(f, 16, 4))
        audio_format    == I16Val(ReadAt(f, 20, 2))
        num_channels    == I16Val(ReadAt(f, 22, 2))
        sample_rate     == U32Val(ReadAt(f, 24, 4))
        bits_per_sample == I16Val(ReadAt(f, 34, 2))
        after_fmt       == IF fmt_size > 16 THEN 36 + (fmt_size - 16) ELSE 36
        c               == FindData(f, after_fmt, stack.chunk_id, stack.chunk_size)
        chunk_size      == U32Val(c.chunk_size)
    IN  IF riff # TagRIFF \/ wave # TagWAVE
        THEN LoadResult("NULL", "read_wav_file", NoBuffer)
        ELSE IF c.chunk_id # TagData
        THEN LoadResult("NULL", "read_wav_file", NoBuffer)
        ELSE IF (bits_per_sample \div 8 = 0 \/ num_channels = 0) /\ stack.div0 = "trap"
        THEN LoadResult("fault", "read_wav_file", NoBuffer)
        ELSE LET num_samples == IF bits_per_sample \div 8 = 0 \/ num_channels = 0
                                THEN 0
                                ELSE (chunk_size \div (bits_per_sample \div 8))
                                         \div num_channels
                 temp        == TempBytes(f, c.pos, chunk_size, stack.fill)
             IN  IF audio_format = 1 /\ bits_per_sample = 16
                 THEN LoadResult("buffer", "read_wav_file",
                          AudioBuffer(num_samples, sample_rate,
                                      ReadPcm16(temp, num_samples, num_channels)))
                 ELSE IF audio_format = 3 /\ bits_per_sample = 32
                 THEN LoadResult("buffer", "read_wav_file",
                          AudioBuffer(num_samples, sample_rate,
                                      ReadFloat32(temp, num_samples, num_channels)))
                 ELSE LoadResult("NULL", "read_wav_file", NoBuffer)

-----------------------------------------------------------------------------
(* Pitch shifting engines *)

(***************************************************************************)
(* The engines' samples are in units of 1/1000 (0.001f is 1, 0.9f is 900). *)
(* The float arithmetic of the transform, of the autocorrelation and of    *)
(* the Hann window is not computed.  What it yields is taken from the      *)
(* input signal's description: amps, the sample value a synthesis frame    *)
(* (phase vocoder) or a grain (PSOLA) adds where it lands, per frame or    *)
(* grain number; pitch, the lag detect_pitch_period finds where it         *)
(* searches (0: no correlation above 0.3).  Ratios are in thousandths.     *)
(***************************************************************************)
SUnit == 1000

FFT_SIZE == 2048
HOP_SIZE == 512
OVERLAP_FACTOR == FFT_SIZE \div HOP_SIZE
MAX_PERIOD == 2048
MIN_PERIOD == 32

NoSignal == [isNull |-> TRUE, length |-> 0, sample_rate |-> 0,
             amps |-> <<0>>, pitch |-> 0]

\* ret: "buffer", "NULL", "none" (no engine has run).
\* failed names the allocation of the call that returned NULL ("none": all
\* succeeded), deref tells whether the call read or wrote through it.
ShiftResult(r, by, ratio, b) ==
    [ret |-> r, by |-> by, ratio |-> ratio, abuf |-> b,
     failed |-> "none", deref |-> FALSE]

NoShift == ShiftResult("none", "none", 0, NoBuffer)

\* if (pitch_ratio < 0.5f) pitch_ratio = 0.5f; if (pitch_ratio > 2.0f) ...
ClampRatio(r) == IF r < 500 THEN 500 ELSE IF r > 2000 THEN 2000 ELSE r

\* The largest |x| of a buffer (0 for an empty one).
MaxAbs(data) ==
    LET S == {Abs(data[i]) : i \in DOMAIN data}
    IN  IF S = {} THEN 0 ELSE CHOOSE m \in S : \A x \in S : x <= m

\* A variant without the final normalization; the sample range property
\* must tell it from PeakNormalize.
LeaveUnscaled(data) == data

\* The final normalization of both engines: the peak to 0.9 when it exceeds
\* 0.001.
PeakNormalize(data) ==
    LET max_val == MaxAbs(data)
    IN  IF max_val > SUnit \div 1000
        THEN [i \in DOMAIN data |-> TruncDiv(data[i] * ((9 * SUnit) \div 10), max_val)]
        ELSE data

\* The sample the synthesis of frame (or grain) number n adds.
AmpOf(sig, n) == sig.amps[(n % Len(sig.amps)) + 1]

(* Phase vocoder *)

\* (int)(input->length * time_stretch_ratio * 1.2f)
StretchedLength(len, r) == (len * r * 12) \div 10000

\* (int)(HOP_SIZE * time_stretch_ratio), at least 1
SynthesisHop(r) == Max(1, (HOP_SIZE * r) \div 1000)

\* The frame loop: st is [output_pos, temp].
RECURSIVE PvFrames(_, _, _, _, _, _)
PvFrames(sig, num_frames, synthesis_hop, stretched_length, frame, st) ==
    IF frame >= num_frames THEN st
    ELSE LET input_pos == frame * HOP_SIZE
         IN  IF input_pos + FFT_SIZE > sig.length THEN st
             ELSE IF st.output_pos + FFT_SIZE > stretched_length THEN st
             ELSE PvFrames(sig, num_frames, synthesis_hop, stretched_length, frame + 1,
                    [output_pos |-> st.output_pos + synthesis_hop,
                     temp |-> [k \in 1..stretched_length |->
                                 LET i == (k - 1) - st.output_pos
                                 IN  IF i >= 0 /\ i < FFT_SIZE
                                     THEN st.temp[k] + AmpOf(sig, frame)
                                     ELSE st.temp[k]]])

\* temp_output[i] *= 2.0f / OVERLAP_FACTOR for i < output_pos
OverlapNormalize(temp, output_pos) ==
    [k \in DOMAIN temp |->
        IF k - 1 < output_pos THEN TruncDiv(temp[k] * 2, OVERLAP_FACTOR) ELSE temp[k]]

\* The linear interpolation back to length samples.
Resample(temp, output_pos, length) ==
    [n \in 1..length |->
        LET i    == n - 1
            idx  == (i * output_pos) \div length
            rem  == (i * output_pos) % length
        IN  IF idx + 1 < output_pos
            THEN TruncDiv(temp[idx + 1] * (length - rem) + temp[idx + 2] * rem, length)
            ELSE IF idx < output_pos THEN temp[idx + 1]
            ELSE 0]

\* A variant that stamps the output with a fixed rate; the length and rate
\* property must tell it from PvOutput.
PvOutputFixedRate(sig, data) == AudioBuffer(sig.length, 44100, data)

\* output->length = input->length; output->sample_rate = input->sample_rate
PvOutput(sig, data) == AudioBuffer(sig.length, sig.sample_rate, data)

phase_vocoder_pitch_shift(sig, pitch_ratio) ==
    LET r                == ClampRatio(pitch_ratio)
        stretched_length == StretchedLength(sig.length, r)
        synthesis_hop    == SynthesisHop(r)
        num_frames       == TruncDiv(sig.length - FFT_SIZE, HOP_SIZE)
        st == PvFrames(sig, num_frames, synthesis_hop, stretched_length, 0,
                       [output_pos |-> 0, temp |-> [k \in 1..stretched_length |-> 0]])
        temp == OverlapNormalize(st.temp, st.output_pos)
    IN  ShiftResult("buffer", "phase_vocoder_pitch_shift", pitch_ratio,
            PvOutput(sig, PeakNormalize(Resample(temp, st.output_pos, sig.length))))

(* PSOLA *)

\* The lag the autocorrelation finds from start: 0 when the search would pass
\* the end of the buffer, else what the signal's content yields (0 or a lag in
\* MIN_PERIOD..MAX_PERIOD-1).
detect_pitch_period(sig, start) ==
    IF start + MAX_PERIOD >= sig.length THEN 0 ELSE sig.pitch

\* A variant that adds every position it steps to; the mark property must
\* tell it from MarkLoop.
RECURSIVE MarkLoopAddsAll(_, _, _)
MarkLoopAddsAll(sig, position, marks) ==
    IF ~(position < sig.length) THEN marks
    ELSE LET period == detect_pitch_period(sig, position)
             next   == IF period > 0 /\ period < MAX_PERIOD
                       THEN position + period
                       ELSE position + 200
         IN  MarkLoopAddsAll(sig, next, Append(marks, next))

RECURSIVE MarkLoop(_, _, _)
MarkLoop(sig, position, marks) ==
    IF ~(position < sig.length) THEN marks
    ELSE LET period == detect_pitch_period(sig, position)
             next   == IF period > 0 /\ period < MAX_PERIOD
                       THEN position + period
                       ELSE position + 200
         IN  MarkLoop(sig, next,
                      IF next < sig.length THEN Append(marks, next) ELSE marks)

\* The first mark is always 0.
detect_pitch_marks(sig) == MarkLoop(sig, 0, <<0>>)

\* periods[i] = positions[i+1] - positions[i]
Periods(marks) == [i \in 1..(Len(marks) - 1) |-> marks[i + 1] - marks[i]]

RECURSIVE SumSeq(_)
SumSeq(s) == IF s = <<>> THEN 0 ELSE Head(s) + SumSeq(Tail(s))

\* A variant of the output period without the floor of 20 samples.  The
\* spacing property must tell it from OutPeriod.
OutPeriodUnclamped(period, r) == (period * 1000) \div r

\* (int)(periods[in_idx] / pitch_ratio), at least 20
OutPeriod(period, r) == Max(20, (period * 1000) \div r)

\* The output mark loop; in_idx counts from 0 as in the code.
RECURSIVE OutputMarkLoop(_, _, _, _, _, _)
OutputMarkLoop(length, periods, r, out_pos, in_idx, marks) ==
    IF ~(out_pos < length /\ in_idx < Len(periods)) THEN marks
    ELSE LET pos  == out_pos + OutPeriod(periods[in_idx + 1], r)
             idx  == in_idx + 1
         IN  OutputMarkLoop(length, periods, r, pos,
                 IF idx >= Len(periods) /\ pos < length THEN Len(periods) - 1 ELSE idx,
                 IF pos < length THEN Append(marks, pos) ELSE marks)

\* The same loop, step by step: positions holds every value out_pos takes
\* (the marks are those below length), steps counts the iterations, and
\* stopped tells that the loop condition became false within fuel
\* iterations.
RECURSIVE OutputMarkRun(_, _, _, _, _, _, _)
OutputMarkRun(length, periods, r, out_pos, in_idx, positions, fuel) ==
    IF ~(out_pos < length /\ in_idx < Len(periods))
    THEN [stopped |-> TRUE, out_pos |-> out_pos, in_idx |-> in_idx,
          positions |-> positions, steps |-> Len(positions) - 1]
    ELSE IF fuel = 0
    THEN [stopped |-> FALSE, out_pos |-> out_pos, in_idx |-> in_idx,
          positions |-> positions, steps |-> Len(positions) - 1]
    ELSE LET pos == out_pos + OutPeriod(periods[in_idx + 1], r)
             idx == in_idx + 1
         IN  OutputMarkRun(length, periods, r, pos,
                 IF idx >= Len(periods) /\ pos < length THEN Len(periods) - 1 ELSE idx,
                 Append(positions, pos), fuel - 1)

\* grain_size = avg_period * 2, kept in 64..4096
GrainSize(avg_period) == Min(4096, Max(64, avg_period * 2))

\* The index (from 0) of the first input mark closest to out_mark.
RECURSIVE ClosestScan(_, _, _, _, _)
ClosestScan(marks, out_mark, j, closest, min_dist) ==
    IF j >= Len(marks) THEN closest
    ELSE LET dist == Abs(marks[j + 1] - out_mark)
         IN  IF dist < min_dist
             THEN ClosestScan(marks, out_mark, j + 1, j, dist)
             ELSE ClosestScan(marks, out_mark, j + 1, closest, min_dist)

\* A variant of the local grain size without the cap at the size of the
\* grain buffer.  The grain size property must tell it from LocalGrainSize.
LocalGrainSizeUncapped(input_marks, closest, grain_size) ==
    IF closest < Len(input_marks) - 1
    THEN LET local_period == input_marks[closest + 2] - input_marks[closest + 1]
         IN  IF local_period > 20 /\ local_period < MAX_PERIOD
             THEN local_period * 2
             ELSE grain_size
    ELSE grain_size

\* The grain size used at an input mark.
LocalGrainSize(input_marks, closest, grain_size) ==
    IF closest < Len(input_marks) - 1
    THEN LET local_period == input_marks[closest + 2] - input_marks[closest + 1]
         IN  IF local_period > 20 /\ local_period < MAX_PERIOD
             THEN Min(grain_size, local_period * 2)
             ELSE grain_size
    ELSE grain_size

\* One record per output mark: the grain placed there, or skipped.
Grains(length, input_marks, output_marks, grain_size) ==
    [i \in 1..Len(output_marks) |->
        LET out_mark == output_marks[i]
            closest  == ClosestScan(input_marks, out_mark, 1, 0,
                                    Abs(input_marks[1] - out_mark))
            in_mark  == input_marks[closest + 1]
        IN  [skipped  |-> in_mark < 0 \/ in_mark >= length
                          \/ out_mark < 0 \/ out_mark >= length,
             out_mark |-> out_mark,
             in_mark  |-> in_mark,
             closest  |-> closest,
             size     |-> LocalGrainSize(input_marks, closest, grain_size)]]

\* extract_grain and overlap_add of grain g reach output position pos: the
\* position is inside the grain and inside the output, and the source
\* position is inside the input (the grain holds 0.0f elsewhere).
GrainCovers(length, g, pos) ==
    LET i == pos - g.out_mark + (g.size \div 2)
    IN  /\ i >= 0 /\ i < g.size
        /\ ~g.skipped
        /\ pos >= 0 /\ pos < length
        /\ g.in_mark - (g.size \div 2) + i >= 0
        /\ g.in_mark - (g.size \div 2) + i < length

RECURSIVE SumAmps(_, _)
SumAmps(sig, ns) ==
    IF ns = {} THEN 0
    ELSE LET n == CHOOSE x \in ns : TRUE
         IN  AmpOf(sig, n - 1) + SumAmps(sig, ns \ {n})

\* output->data[pos] after the synthesis loop.
SumGrains(sig, grains, pos) ==
    SumAmps(sig, {n \in DOMAIN grains : GrainCovers(sig.length, grains[n], pos)})

\* output->length = input->length; output->sample_rate = input->sample_rate
PsolaOutput(sig, data) == AudioBuffer(sig.length, sig.sample_rate, data)

\* A variant of psola_pitch_shift without the check of the number of marks:
\* it hands out a silent buffer.  The NULL property must tell it from
\* psola_pitch_shift.
psola_without_mark_check(sig, pitch_ratio) ==
    ShiftResult("buffer", "psola_pitch_shift", pitch_ratio,
        PsolaOutput(sig, [k \in 1..sig.length |-> 0]))

\* if (input_marks->count < 2) return NULL
TooFewMarks(input_marks) == Len(input_marks) < 2

psola_pitch_shift(sig, pitch_ratio) ==
    LET r           == ClampRatio(pitch_ratio)
        input_marks == detect_pitch_marks(sig)
    IN  IF TooFewMarks(input_marks)
        THEN ShiftResult("NULL", "psola_pitch_shift", pitch_ratio, NoBuffer)
        ELSE LET periods      == Periods(input_marks)
                 avg_period   == SumSeq(periods) \div (Len(input_marks) - 1)
                 output_marks == OutputMarkLoop(sig.length, periods, r, 0, 0, <<0>>)
                 grain_size   == GrainSize(avg_period)
                 grains       == Grains(sig.length, input_marks, output_marks, grain_size)
                 data         == [k \in 1..sig.length |-> SumGrains(sig, grains, k - 1)]
             IN  ShiftResult("buffer", "psola_pitch_shift", pitch_ratio,
                     PsolaOutput(sig, PeakNormalize(data)))

\* A variant of extract_grain without the test of pos: it reads input[pos]
\* at every position of the grain.  The index property must tell it from
\* ExtractGrainReads.
ExtractGrainReadsUnguarded(input_length, center, grain_size) ==
    {center - (grain_size \div 2) + i : i \in 0..(grain_size - 1)}

\* The positions at which extract_grain reads input[pos]:
\* pos = center - half_size + i, read if (pos >= 0 && pos < input_length).
ExtractGrainReads(input_length, center, grain_size) ==
    {pos \in {center - (grain_size \div 2) + i : i \in 0..(grain_size - 1)} :
        pos >= 0 /\ pos < input_length}

\* The positions at which overlap_add writes output[pos].
OverlapAddWrites(center, grain_size, output_length) ==
    {pos \in {center - (grain_size \div 2) + i : i \in 0..(grain_size - 1)} :
        pos >= 0 /\ pos < output_length}

\* The indices (from 0) into input_marks->positions the synthesis loop uses
\* for one output mark: the scan over j, [closest_in_mark] and, behind its
\* test, [closest_in_mark + 1].
InputMarkIndices(input_marks, closest) ==
    (0..(Len(input_marks) - 1)) \cup {closest}
        \cup (IF closest < Len(input_marks) - 1 THEN {closest + 1} ELSE {})

\* What a call of psola_pitch_shift that passes the mark check indexes:
\* the size of the grain buffer it allocates, the counts of the two mark
\* arrays and, per output mark i (from 0) that is not skipped, the size
\* handed to extract_grain and overlap_add, the input positions read, the
\* output positions written and the mark indices used.
PsolaIndexTrace(sig, pitch_ratio) ==
    LET r            == ClampRatio(pitch_ratio)
        input_marks  == detect_pitch_marks(sig)
        periods      == Periods(input_marks)
        avg_period   == SumSeq(periods) \div (Len(input_marks) - 1)
        output_marks == OutputMarkLoop(sig.length, periods, r, 0, 0, <<0>>)
        grain_size   == GrainSize(avg_period)
        grains       == Grains(sig.length, input_marks, output_marks, grain_size)
    IN  [grain_alloc  |-> grain_size,
         input_count  |-> Len(input_marks),
         output_count |-> Len(output_marks),
         length       |-> sig.length,
         calls        |->
            [i \in {n \in DOMAIN grains : ~grains[n].skipped} |->
                [local_grain_size |-> grains[i].size,
                 reads      |-> ExtractGrainReads(sig.length, grains[i].in_mark,
                                                  grains[i].size),
                 writes     |-> OverlapAddWrites(grains[i].out_mark, grains[i].size,
                                                 sig.length),
                 closest    |-> grains[i].closest,
                 in_index   |-> InputMarkIndices(input_marks, grains[i].closest),
                 out_index  |-> i - 1]]]

\* wrap_phase.  A float phase is an integer multiple of Ulp, the spacing of
\* the floats around pi; M_PI is a double that lies between two floats (the
\* float nearest to pi is above it), and 2.0f * M_PI is its exact double.
\* phase -= 2.0f * M_PI is computed in double and rounded to float.
Ulp == 8
M_PI == 29

RoundToFloat(x) ==
    LET lo  == (x \div Ulp) * Ulp
        rem == x - lo
    IN  IF 2 * rem < Ulp THEN lo
        ELSE IF 2 * rem > Ulp THEN lo + Ulp
        ELSE IF (lo \div Ulp) % 2 = 0 THEN lo ELSE lo + Ulp

\* while (phase > M_PI) phase -= 2.0f * M_PI
RECURSIVE WrapDown(_)
WrapDown(ph) == IF ph > M_PI THEN WrapDown(RoundToFloat(ph - 2 * M_PI)) ELSE ph

\* while (phase < -M_PI) phase += 2.0f * M_PI
RECURSIVE WrapUp(_)
WrapUp(ph) == IF ph < -M_PI THEN WrapUp(RoundToFloat(ph + 2 * M_PI)) ELSE ph

\* A variant with an if in place of each while; the interval property must
\* tell it from wrap_phase.
wrap_phase_once(ph) ==
    LET down == IF ph > M_PI THEN RoundToFloat(ph - 2 * M_PI) ELSE ph
    IN  IF down < -M_PI THEN RoundToFloat(down + 2 * M_PI) ELSE down

wrap_phase(ph) == WrapUp(WrapDown(ph))

\* The frames the loop of phase_vocoder_pitch_shift processes, each with the
\* position it reads the input from and the position it adds to in
\* temp_output.
PvFramePositionsPastEnd(length, num_frames, synthesis_hop, stretched_length, frame, output_pos) ==
    [f \in 1..(Max(num_frames, 0) + 3) |->
        [input_pos |-> (f - 1) * HOP_SIZE, output_pos |-> (f - 1) * synthesis_hop]]

RECURSIVE PvFramePositions(_, _, _, _, _, _)
PvFramePositions(length, num_frames, synthesis_hop, stretched_length, frame, output_pos) ==
    IF frame >= num_frames THEN <<>>
    ELSE LET input_pos == frame * HOP_SIZE
         IN  IF input_pos + FFT_SIZE > length THEN <<>>
             ELSE IF output_pos + FFT_SIZE > stretched_length THEN <<>>
             ELSE <<[input_pos |-> input_pos, output_pos |-> output_pos]>>
                  \o PvFramePositions(length, num_frames, synthesis_hop,
                                      stretched_length, frame + 1,
                                      output_pos + synthesis_hop)

\* The indices phase_vocoder_pitch_shift uses: input[input_pos + i] of each
\* frame, temp_output[output_pos + i] under its guard, temp_output[i] of the
\* overlap normalization, temp_output[idx] and temp_output[idx + 1] of the
\* resampling.  Ranges are records [lo, hi]; hi < lo is an empty range.
PvIndexTrace(sig, pitch_ratio) ==
    LET r                == ClampRatio(pitch_ratio)
        stretched_length == StretchedLength(sig.length, r)
        synthesis_hop    == SynthesisHop(r)
        num_frames       == TruncDiv(sig.length - FFT_SIZE, HOP_SIZE)
        frames == PvFramePositions(sig.length, num_frames, synthesis_hop,
                                   stretched_length, 0, 0)
        output_pos == Len(frames) * synthesis_hop
        idx(i) == (i * output_pos) \div sig.length
    IN  [frames |-> frames,
         stretched_length |-> stretched_length,
         output_pos |-> output_pos,
         input_reads |-> {[lo |-> frames[f].input_pos,
                           hi |-> frames[f].input_pos + FFT_SIZE - 1] :
                              f \in DOMAIN frames},
         temp_writes |-> {[lo |-> frames[f].output_pos,
                           hi |-> Min(frames[f].output_pos + FFT_SIZE,
                                      stretched_length) - 1] :
                              f \in DOMAIN frames},
         norm_reads |-> [lo |-> 0, hi |-> Min(output_pos, stretched_length) - 1],
         resample_reads |->
             {[lo |-> idx(i), hi |-> idx(i) + 1] :
                 i \in {j \in 0..(sig.length - 1) : idx(j) + 1 < output_pos}}
             \cup {[lo |-> idx(i), hi |-> idx(i)] :
                 i \in {j \in 0..(sig.length - 1) :
                           ~(idx(j) + 1 < output_pos) /\ idx(j) < output_pos}}]

\* The allocations of the engines, none of which is checked.
PvAllocations ==
    {"temp_output", "window", "fft_in", "fft_out", "magnitude_buf", "phase_buf",
     "last_phase", "sum_phase", "output", "output->data"}

PsolaAllocations ==
    {"input_marks", "input_marks->positions", "periods", "output_marks",
     "output_marks->positions", "output", "output->data"}

\* What an access through a NULL pointer does (undefined): a trap, or, where
\* address 0 is mapped, the access goes through and the call proceeds.
NullAccess == {"trap", "proceeds"}

FailedShift(r, by, ratio, b, failed, deref) ==
    [ShiftResult(r, by, ratio, b) EXCEPT !.failed = failed, !.deref = deref]

\* phase_vocoder_pitch_shift when the allocation named failed returns NULL.
\* window and output are written in every call, output->data when the
\* input has samples, the other buffers when a frame is processed.
phase_vocoder_alloc_fails(sig, pitch_ratio, failed, access) ==
    LET by     == "phase_vocoder_pitch_shift"
        normal == phase_vocoder_pitch_shift(sig, pitch_ratio)
        frames == PvIndexTrace(sig, pitch_ratio).frames
        used   == IF failed \in {"window", "output"} THEN TRUE
                  ELSE IF failed = "output->data" THEN sig.length > 0
                  ELSE Len(frames) > 0
    IN  IF ~used THEN FailedShift(normal.ret, by, pitch_ratio, normal.abuf, failed, FALSE)
        ELSE IF access = "trap"
        THEN FailedShift("fault", by, pitch_ratio, NoBuffer, failed, TRUE)
        ELSE IF failed = "output"
        THEN FailedShift("NULL", by, pitch_ratio, NoBuffer, failed, TRUE)
        ELSE FailedShift(normal.ret, by, pitch_ratio, normal.abuf, failed, TRUE)

\* psola_pitch_shift when the allocation named failed returns NULL: each of
\* them is written right after it is made.
psola_alloc_fails(sig, pitch_ratio, failed, access) ==
    LET by     == "psola_pitch_shift"
        normal == psola_pitch_shift(sig, pitch_ratio)
    IN  IF access = "trap"
        THEN FailedShift("fault", by, pitch_ratio, NoBuffer, failed, TRUE)
        ELSE IF failed = "output"
        THEN FailedShift("NULL", by, pitch_ratio, NoBuffer, failed, TRUE)
        ELSE FailedShift(normal.ret, by, pitch_ratio, normal.abuf, failed, TRUE)

-----------------------------------------------------------------------------
(* Pitch detection and the tuner (helloworld.c, wav_pitch_detection.c).
   Frequencies are integers in 1/100 Hz, estimator thresholds and
   normalized differences in 1/10000, ratios in thousandths. *)

Hz == 100
TUnit == 10000
RUnit == 1000

RECURSIVE Pow2(_)
Pow2(n) == IF n <= 0 THEN 1 ELSE 2 * Pow2(n - 1)

\* 440 * 2^((n - 69) / 12) for the notes n = 120 .. 131; the lower octaves
\* are halvings of these.
TopOctave ==
    <<837202, 886984, 939727, 995606, 1054808, 1117530,
      1183982, 1254385, 1328975, 1408000, 1491724, 1580427>>

get_note_frequency(midi_note) ==
    TopOctave[(midi_note % 12) + 1] \div Pow2(10 - (midi_note \div 12))

\* 440 * 2^((n - 69.5) / 12): the frequency from which 12 log2(f / 440) +
\* 69.5 truncates to n.
TopBoundaries ==
    <<813368, 861734, 912975, 967263, 1024780, 1085716,
      1150276, 1218675, 1291142, 1367917, 1449258, 1535435>>

NoteBoundary(n) == TopBoundaries[(n % 12) + 1] \div Pow2(10 - (n \div 12))

\* Frequencies here are at least 20 Hz, where the truncated value is positive.
frequency_to_midi_note(frequency) ==
    IF frequency <= 0 THEN -1
    ELSE LET below == {n \in 0..131 : NoteBoundary(n) <= frequency}
         IN  IF below = {} THEN 0
             ELSE CHOOSE n \in below : \A m \in below : m <= n

RECURSIVE ScanDown(_, _, _)
ScanDown(recorded_freq, reference_note_class, octave) ==
    IF octave < 1 THEN 0
    ELSE LET midi_note == reference_note_class + (octave * 12)
         IN  IF /\ midi_note >= 12 /\ midi_note <= 108
                /\ get_note_frequency(midi_note) < recorded_freq
             THEN get_note_frequency(midi_note)
             ELSE ScanDown(recorded_freq, reference_note_class, octave - 1)

RECURSIVE ScanUp(_, _, _)
ScanUp(recorded_freq, reference_note_class, octave) ==
    IF octave > 8 THEN 0
    ELSE LET midi_note == reference_note_class + (octave * 12)
         IN  IF /\ midi_note >= 12 /\ midi_note <= 108
                /\ get_note_frequency(midi_note) > recorded_freq
             THEN get_note_frequency(midi_note)
             ELSE ScanUp(recorded_freq, reference_note_class, octave + 1)

find_closest_target_frequency(recorded_freq, reference_note_class, reference_freq) ==
    IF recorded_freq > reference_freq
    THEN ScanDown(recorded_freq, reference_note_class, 8)
    ELSE ScanUp(recorded_freq, reference_note_class, 1)

\* The estimator (Yin): the pitch of the buffer when its smallest normalized
\* difference is below the threshold, else the sentinel -1 Hz.
Silence == [dip |-> TUnit, pitch |-> 0]

Yin_getPitch(tone, threshold) ==
    IF tone.dip < threshold /\ tone.pitch > 0 THEN tone.pitch ELSE -Hz

Yin_getProbability(tone) == TUnit - tone.dip

\* What a detection reads of a WAV file on storage: whether it opens, how
\* many header bytes a read returns, the header fields, whether a chunk
\* tagged "data" follows the 36-byte header and its declared size, the first
\* sample findAudioStart finds above its threshold (-1: none), whether malloc
\* and the sample read succeed, and what the estimator hears from each start
\* sample.
ToneAt(f, startSample) ==
    IF startSample \in DOMAIN f.tone THEN f.tone[startSample] ELSE Silence

PitchResult(ret, pitch, confidence, sampleRate, numSamples, actualStartSample, passes, thresholds, fault) ==
    [ret |-> ret, pitch |-> pitch, confidence |-> confidence,
     sampleRate |-> sampleRate, numSamples |-> numSamples,
     bufferSize |-> numSamples, actualStartSample |-> actualStartSample,
     passes |-> passes, thresholds |-> thresholds, fault |-> fault]

NoResult == PitchResult(0, 0, 0, 0, 0, 0, 0, <<>>, FALSE)

\* passes and thresholds record the calls of Yin_getPitch.  A read that ends
\* before numSamples samples is only reported: the buffer from malloc keeps
\* what it held, and the estimator hears heap.
detect_pitch_from_sd(f, startSample, numSamples, threshold, heap) ==
    LET n == IF numSamples = 0 THEN 2048 ELSE numSamples
        tone == IF startSample + n > f.frames THEN heap ELSE ToneAt(f, startSample)
        pitch == Yin_getPitch(tone, threshold)
        new_threshold == threshold \div 2
        pitch2 == Yin_getPitch(tone, new_threshold)
    IN  IF ~f.opens \/ f.header_bytes # 44
        THEN PitchResult(-1, -Hz, 0, 0, 0, startSample, 0, <<>>, FALSE)
        ELSE IF ~f.malloc_ok \/ ~f.read_ok
        THEN PitchResult(-1, -Hz, 0, f.sampleRate, n, startSample, 0, <<>>, FALSE)
        ELSE IF pitch <= 0 /\ threshold > 500
        THEN PitchResult(0, IF pitch2 > 0 THEN pitch2 ELSE pitch,
                         Yin_getProbability(tone), f.sampleRate, n, startSample,
                         2, <<threshold, new_threshold>>, FALSE)
        ELSE PitchResult(0, pitch, Yin_getProbability(tone), f.sampleRate, n,
                         startSample, 1, <<threshold>>, FALSE)

\* One pass of detectPitchFromWav over the file from a resolved start sample.
DetectPass(f, startSample, numSamples, threshold, div0) ==
    LET miss(rate, n) ==
            PitchResult(-1, -Hz, 0, rate, n, startSample, 0, <<>>, FALSE)
        bytesPerSample == f.bitsPerSample \div 8
        divisor      == f.numChannels * bytesPerSample
        totalSamples == IF divisor = 0 THEN 0 ELSE f.chunkSize \div divisor
        n0 == IF numSamples = 0
              THEN (IF startSample + 2048 > totalSamples
                    THEN totalSamples - startSample ELSE 2048)
              ELSE numSamples
        n  == IF startSample + n0 > totalSamples
              THEN totalSamples - startSample ELSE n0
        tone == ToneAt(f, startSample)
    IN  IF ~f.opens \/ f.header_bytes < 36 THEN miss(0, 0)
        ELSE IF ~f.magic_ok THEN miss(0, 0)
        ELSE IF f.audioFormat # 1 THEN miss(0, 0)
        ELSE IF divisor = 0 /\ div0 = "trap"
        THEN PitchResult(-1, -Hz, 0, f.sampleRate, 0, startSample, 0, <<>>, TRUE)
        ELSE IF startSample < 0 \/ startSample >= totalSamples
        THEN miss(f.sampleRate, 0)
        ELSE IF ~f.malloc_ok THEN miss(f.sampleRate, n)
        ELSE IF f.bitsPerSample \notin {8, 16} \/ startSample + n > f.frames
             THEN miss(f.sampleRate, n)
        ELSE PitchResult(0, Yin_getPitch(tone, threshold), Yin_getProbability(tone),
                         f.sampleRate, n, startSample, 1, <<threshold>>, FALSE)

detectPitchFromWavRetryAlways(f, startSample, numSamples, threshold, div0) ==
    LET first == DetectPass(f, startSample, numSamples, threshold, div0)
        again == DetectPass(f, 44100, first.numSamples, threshold, div0)
    IN  IF first.ret = 0 /\ first.pitch <= 0
        THEN [again EXCEPT !.passes = first.passes + again.passes,
                           !.thresholds = first.thresholds \o again.thresholds]
        ELSE first

\* findAudioStart divides by numChannels * bytesPerSample as well.
detectPitchFromWav(f, startSample, numSamples, threshold, div0) ==
    LET usedAutoDetect == startSample = -1
        divisor == f.numChannels * (f.bitsPerSample \div 8)
        start == IF usedAutoDetect
                 THEN (IF ~f.opens \/ f.audioStart = -1 THEN 0 ELSE f.audioStart)
                 ELSE startSample
        first == DetectPass(f, start, numSamples, threshold, div0)
        again == DetectPass(f, 44100, first.numSamples, threshold, div0)
    IN  IF usedAutoDetect /\ f.opens /\ divisor = 0 /\ div0 = "trap"
        THEN PitchResult(-1, -Hz, 0, 0, 0, 0, 0, <<>>, TRUE)
        ELSE IF usedAutoDetect /\ first.ret = 0 /\ first.pitch <= 0
        THEN [again EXCEPT !.passes = first.passes + again.passes,
                           !.thresholds = first.thresholds \o again.thresholds]
        ELSE first

\* main, state 3: the reference is tried from each start position until one
\* detection succeeds with a pitch.
start_positions == <<0, 11025, 22050, 88200>>

RECURSIVE RefLoop(_, _, _)
RefLoop(ref, pos, heap) ==
    IF pos > Len(start_positions) THEN [ref_detected |-> FALSE, pitch |-> -Hz]
    ELSE LET ref_result == detect_pitch_from_sd(ref, start_positions[pos], 1024, 1500, heap)
         IN  IF ref_result.ret = 0 /\ ref_result.pitch > 0
             THEN [ref_detected |-> TRUE, pitch |-> ref_result.pitch]
             ELSE RefLoop(ref, pos + 1, heap)

RatioZeroOnMiss(t) == 0

RatioOnMiss(t) == RUnit

\* The pitch detection of state 3 on the tuner's fields t, from the files
\* rec.wav and e.wav: target_pitch_ratio is target / recorded when both
\* pitches are detected and a target exists, else 1.0.
PitchDetection(t, rec, ref, heap) ==
    LET rec_result == detect_pitch_from_sd(rec, 22050, 1024, 1500, heap)
        r == RefLoop(ref, 1, heap)
        ref_midi == frequency_to_midi_note(r.pitch)
        ref_note_class == ref_midi % 12
        target_freq == find_closest_target_frequency(rec_result.pitch,
                                                     ref_note_class, r.pitch)
    IN  IF t.pitch_done
        THEN [t EXCEPT !.target_pitch_ratio = RatioOnMiss(t), !.target_freq = -1,
                       !.rec_detected = FALSE, !.ref_detected = FALSE]
        ELSE IF rec_result.ret # 0 \/ rec_result.pitch <= 0
        THEN [t EXCEPT !.target_pitch_ratio = RatioOnMiss(t), !.target_freq = -1,
                       !.rec_detected = FALSE, !.ref_detected = FALSE]
        ELSE IF ~r.ref_detected
        THEN [t EXCEPT !.target_pitch_ratio = RatioOnMiss(t), !.target_freq = -1,
                       !.rec_detected = TRUE, !.ref_detected = FALSE,
                       !.recorded_pitch = rec_result.pitch]
        ELSE [t EXCEPT !.target_pitch_ratio =
                           IF target_freq > 0
                           THEN (target_freq * RUnit) \div rec_result.pitch
                           ELSE RatioOnMiss(t),
                       !.target_freq = target_freq,
                       !.rec_detected = TRUE, !.ref_detected = TRUE,
                       !.recorded_pitch = rec_result.pitch,
                       !.reference_pitch = r.pitch,
                       !.ref_note_class = ref_note_class]

\* The ratio main hands to phase_vocoder_pitch_shift in state 4.
ShiftRatio(pitch_shift_ratio) ==
    IF pitch_shift_ratio > 3000 \/ pitch_shift_ratio < 300
    THEN (IF pitch_shift_ratio > 2000 THEN 2000
          ELSE IF pitch_shift_ratio < 500 THEN 500
          ELSE pitch_shift_ratio)
    ELSE pitch_shift_ratio

\* The phase vocoder run of state 4: rec.wav loads or not, the engine
\* returns a buffer or NULL; passed is the ratio handed to the engine (0:
\* the engine was not called).
Vocoder(t, loads, shifts) ==
    IF t.vocoder_done THEN t
    ELSE [t EXCEPT !.passed = IF loads THEN ShiftRatio(t.target_pitch_ratio) ELSE 0,
                   !.saved = loads /\ shifts,
                   !.vocoder_done = TRUE,
                   !.state = t.state + 1]

\* One iteration of main's loop with the switch reading sw: a rising edge
\* steps the state, then the state's branch runs.  State 2 records rec.wav
\* and advances; the LED writes and delays leave no trace here.
Pressed(t, sw) ==
    [t EXCEPT !.state = IF sw = 1 /\ t.prev_sw = 0 THEN t.state + 1 ELSE t.state,
              !.prev_sw = sw, !.ran = "none"]

MainLoop(t, sw, rec, ref, heap, loads, shifts) ==
    LET pressed == Pressed(t, sw)
    IN  IF pressed.state = 2
        THEN [pressed EXCEPT !.state = 3, !.ran = "record",
                             !.recordings = pressed.recordings + 1]
        ELSE IF pressed.state = 3
        THEN [PitchDetection(pressed, rec, ref, heap) EXCEPT
                  !.pitch_done = TRUE, !.state = 4, !.ran = "detect",
                  !.detected_for = IF pressed.pitch_done THEN pressed.detected_for
                                   ELSE pressed.recordings]
        ELSE IF pressed.state = 4
        THEN [Vocoder(pressed, loads, shifts) EXCEPT
                  !.ran = IF pressed.vocoder_done THEN "none" ELSE "vocode",
                  !.vocoded_for = IF pressed.vocoder_done THEN pressed.vocoded_for
                                  ELSE pressed.recordings]
        ELSE IF pressed.state >= 6
        THEN [pressed EXCEPT !.state = 0, !.ran = "reset"]
        ELSE pressed

-----------------------------------------------------------------------------
(* The recording of state 2 *)

(***************************************************************************)
(* The file rec.wav during the capture is its 44 header bytes, the list of *)
(* the writes that followed them (bytes written and bytes asked for, per   *)
(* f_write) and the position of the file pointer.                          *)
(***************************************************************************)
FS == 48000
CHANNELS == 1
OUT_BITS == 16
BURST_SAMPLES == 256
SECONDS_TO_RECORD == 3
TOTAL_SAMPLES == FS * SECONDS_TO_RECORD

\* pc: "idle", "loop" (in the recording loop), "patch" (the loop is left),
\* "closed", "exit" (main returned); failed: "none", "dma", "write".
NoCapture ==
    [pc |-> "idle", samples_written |-> 0, header |-> <<>>, data |-> <<>>,
     fptr |-> 0, failed |-> "none"]

\* sd_open_wav("rec.wav", TOTAL_SAMPLES, FS, OUT_BITS, CHANNELS) returning 0,
\* then samples_written = 0.
OpenRecording(c) ==
    [c EXCEPT !.pc = "loop", !.samples_written = 0,
              !.header = wav_header(U32(TOTAL_SAMPLES), U32(FS), OUT_BITS, CHANNELS),
              !.data = <<>>, !.fptr = 44, !.failed = "none"]

\* A variant of the burst size without the cut of the last burst.  The
\* sample count property must tell it from BurstChunk.
BurstChunkUncut(samples_written) == BURST_SAMPLES

\* chunk = BURST_SAMPLES, cut to TOTAL_SAMPLES - samples_written.
BurstChunk(samples_written) ==
    IF samples_written + BURST_SAMPLES > TOTAL_SAMPLES
    THEN TOTAL_SAMPLES - samples_written
    ELSE BURST_SAMPLES

\* One iteration of the recording loop: the DMA transfer is set up or not,
\* f_write returns fr and has written bw bytes.
RecordBurst(c, dma_ok, fr_ok, bw) ==
    LET chunk == BurstChunk(c.samples_written)
        written == [c EXCEPT !.data = Append(c.data, [bytes |-> bw, asked |-> chunk * 2]),
                             !.fptr = c.fptr + bw]
    IN  IF ~dma_ok THEN [c EXCEPT !.pc = "patch", !.failed = "dma"]
        ELSE IF ~fr_ok \/ bw # chunk * 2
        THEN [written EXCEPT !.pc = "patch", !.failed = "write"]
        ELSE [written EXCEPT !.samples_written = c.samples_written + chunk,
                             !.pc = IF c.samples_written + chunk < TOTAL_SAMPLES
                                    THEN "loop" ELSE "patch"]

\* f_write of the 44 bytes hdr at the file pointer: at 0 they replace the
\* header, at the end of the file they follow the data.
WriteHeaderAt(c, hdr) ==
    IF c.fptr = 0
    THEN [c EXCEPT !.header = hdr, !.fptr = 44]
    ELSE [c EXCEPT !.data = Append(c.data, [bytes |-> 44, asked |-> 44]),
                   !.fptr = c.fptr + 44]

\* A variant of sd_fix_header without the f_lseek.  The patch property must
\* tell it from sd_fix_header.
sd_fix_header_no_seek(c, nsamples, fs, bits, ch) ==
    WriteHeaderAt(c, wav_header(nsamples, fs, bits, ch))

\* sd_fix_header: wav_header, f_lseek(fp, 0), f_write of the 44 bytes.
sd_fix_header(c, nsamples, fs, bits, ch) ==
    WriteHeaderAt([c EXCEPT !.fptr = 0], wav_header(nsamples, fs, bits, ch))

-----------------------------------------------------------------------------
(* Inputs *)

MaxLen == 2         \* samples of a buffer handed to a save
MaxFrames == 2      \* frames of the payload of a given file

\* Sample values (Q16) of the buffers handed to a save: beyond full scale,
\* full scale, just below it, small, zero.
SaveSamples == {-70000, -Q16, -3, 0, 1, Q16 - 1, Q16}

Rates == {44100, 48000}

SeqsUpTo(S, n) == UNION {[1..k -> S] : k \in 0..n}

Buffers ==
    {AudioBuffer(Len(d), r, d) : d \in SeqsUpTo(SaveSamples, MaxLen), r \in Rates}

\* Arguments of wav_header.
HeaderCounts == {U32(0), U32(1), U32(144000), <<0, 0, 0, 128>>, <<255, 255, 255, 255>>}
HeaderRates  == {U32(0), U32(48000), <<255, 255, 255, 255>>}
HeaderBits   == {0, 8, 12, 16, 32, 65535}
HeaderChans  == {0, 1, 2, 256, 65535}

\* Given files.  The payload holds the raw sample words of the declared width.
Words(bits) ==
    IF bits = 16 THEN {I16Bytes(-32768), I16Bytes(32767)}
    ELSE IF bits = 32 THEN {F32Bytes(-Q16), F32Bytes(70000)}
    ELSE {<<0>>, <<255>>}

Payloads(bits, channels) ==
    {Flatten(w) : w \in UNION {[1..(k * channels) -> Words(bits)] : k \in 0..MaxFrames}}

ListChunk == TagLIST \o U32(2) \o <<7, 9>>

\* layout: "plain" (fmt, data), "LIST" (fmt, LIST, data), "fmt18" (an fmt
\* chunk of 18 bytes, data).
MakeWav(riff, wave, fmtTag, layout, format, channels, bits, hasData, payload) ==
    LET fmtExtra == IF layout = "fmt18" THEN <<0, 0>> ELSE <<>>
        body == wave
                \o fmtTag \o U32(16 + Len(fmtExtra))
                \o LE16(format) \o LE16(channels)
                \o U32(48000) \o U32(48000 * channels * (bits \div 8))
                \o LE16(channels * (bits \div 8)) \o LE16(bits)
                \o fmtExtra
                \o (IF layout = "LIST" THEN ListChunk ELSE <<>>)
                \o (IF hasData THEN TagData \o U32(Len(payload)) \o payload
                    ELSE payload)
    IN  riff \o U32(Len(body)) \o body

Formats == {1, 3}
Widths == {8, 16, 32}
Layouts == {"plain", "LIST", "fmt18"}

WellFormedFiles ==
    {MakeWav(TagRIFF, TagWAVE, TagFmt, l, fm, ch, b, TRUE, p) :
        l \in Layouts, fm \in Formats,
        <<ch, b, p>> \in {<<c, w, q>> \in {1, 2} \X Widths \X
                             UNION {Payloads(w2, c2) : w2 \in Widths, c2 \in {1, 2}} :
                             q \in Payloads(w, c)}}

BadTagFiles ==
    {MakeWav(t[1], t[2], t[3], "plain", fb[1], 1, fb[2], TRUE, p) :
        t \in {<<TagJunk, TagWAVE, TagFmt>>, <<TagRIFF, TagJunk, TagFmt>>,
               <<TagRIFF, TagWAVE, TagJunk>>},
        <<fb, p>> \in {<<x, q>> \in {<<1, 16>>, <<3, 32>>} \X
                          UNION {Payloads(w, 1) : w \in {16, 32}} :
                          q \in Payloads(x[2], 1)}}

\* No chunk tagged "data": the file ends after fmt (and LIST), or other bytes
\* follow it.
NoDataFiles ==
    {MakeWav(TagRIFF, TagWAVE, TagFmt, l, fm, ch, b, FALSE, tail) :
        l \in Layouts, fm \in Formats, ch \in {1, 2}, b \in Widths,
        tail \in {<<>>, <<1, 2, 3, 4>>}}

\* Headers whose channel count is 0 or whose sample width is below 8 bits,
\* all tags in place.
ZeroDivisorFiles ==
    {MakeWav(TagRIFF, TagWAVE, TagFmt, "plain", fm, cb[1], cb[2], TRUE, p) :
        fm \in Formats, cb \in {<<0, 16>>, <<1, 4>>, <<0, 0>>, <<0, 32>>},
        p \in {<<>>, <<1, 2, 3, 4>>}}

GivenFiles == WellFormedFiles \cup BadTagFiles \cup NoDataFiles \cup ZeroDivisorFiles

\* What an integer division by zero does (undefined): the trap of a hosted
\* build, or the quotient 0 that the bare-metal division helper returns.
DivByZero == {"trap", "zero"}

\* What the locals chunk_id and chunk_size of read_wav_file hold before the
\* first fread, what malloc'ed memory holds, and what a division by zero
\* does.
Stacks ==
    {[chunk_id |-> s[1], chunk_size |-> s[2], fill |-> s[3], div0 |-> d] :
        s \in {<<<<0, 0, 0, 0>>, U32(0), 0>>, <<TagData, U32(2), 170>>},
        d \in DivByZero}

\* Input buffers of the engines.  Lengths around the 200-sample fallback
\* step of detect_pitch_marks, and of one and two analysis frames (both
\* longer than MAX_PERIOD, so that detect_pitch_period searches).
\* Iterations the output mark loop is followed for.
MaxMarkSteps == 200

SignalLengths == {0, 200, 201, 450, 2560, 3100}
SignalAmps == {<<0>>, <<2, 1>>, <<700, -2500>>}
SignalPitches == {0, 32, 700}

Signals ==
    {[isNull |-> FALSE, length |-> l, sample_rate |-> r, amps |-> a, pitch |-> p] :
        l \in SignalLengths, r \in Rates, a \in SignalAmps, p \in SignalPitches}

\* Phases handed to wrap_phase: the floats within MaxPhase steps of 0.
MaxPhase == 60
Phases == {k * Ulp : k \in (-MaxPhase)..MaxPhase}

NoPhase == [in |-> 0, out |-> 0, wrapped |-> FALSE]

\* Input buffers of the calls in which an allocation fails.
FaultSignals ==
    {sg \in Signals : /\ sg.length \in {0, 450, 2560} /\ sg.sample_rate = 48000
                      /\ sg.amps = <<700, -2500>> /\ sg.pitch \in {0, 700}}

\* Requested ratios (thousandths): below, inside and above 0.5 .. 2.0.
Ratios == {300, 1000, 1500, 2500}

\* Files for the detections.
WavOnDisk(opens, header_bytes, magic_ok, audioFormat, numChannels, bitsPerSample, has_data, frames, chunkSize, audioStart, malloc_ok, read_ok, tone) ==
    [opens |-> opens, header_bytes |-> header_bytes, magic_ok |-> magic_ok,
     audioFormat |-> audioFormat, numChannels |-> numChannels,
     bitsPerSample |-> bitsPerSample, sampleRate |-> 48000,
     has_data |-> has_data, frames |-> frames, chunkSize |-> chunkSize,
     audioStart |-> audioStart, malloc_ok |-> malloc_ok, read_ok |-> read_ok,
     tone |-> tone]

Starts == {0, 11025, 22050, 44100, 88200}

Clear(p) == [dip |-> 200, pitch |-> p]
Faint(p) == [dip |-> 1200, pitch |-> p]
Everywhere(tn) == [s \in Starts |-> tn]
Late(tn) == [s \in Starts |-> IF s >= 22050 THEN tn ELSE Silence]

\* A 16-bit mono PCM file of the given length that opens and reads.
Mono16(frames, tone) ==
    WavOnDisk(TRUE, 44, TRUE, 1, 1, 16, TRUE, frames, 2 * frames, 0,
              TRUE, TRUE, tone)

Missing == WavOnDisk(FALSE, 0, FALSE, 0, 0, 0, FALSE, 0, 0, -1, TRUE, TRUE,
                     Everywhere(Silence))

\* Recorded and reference pitches (1/100 Hz): on a note, between notes,
\* between the two highest C, above every note in range; the references
\* include the highest C (note 108).
RecordedPitches == {26163, 44000, 45000, 300000, 500000, 1000000}
ReferencePitches == {26163, 44000, 45000, 418601}

RecFiles ==
    {Mono16(144000, Everywhere(Clear(p))) : p \in RecordedPitches}
    \cup {Mono16(144000, Everywhere(Silence)), Missing}

RefFiles ==
    {Mono16(144000, Everywhere(Clear(p))) : p \in ReferencePitches}
    \cup {Mono16(144000, Late(Clear(44000))), Mono16(144000, Everywhere(Silence)),
          Missing}

ProbeFiles ==
    {Mono16(n, tm) : n \in {3000, 144000},
                     tm \in {Everywhere(Clear(44000)), Everywhere(Faint(44000)),
                             Late(Clear(44000)), Everywhere(Silence)}}
    \cup {WavOnDisk(TRUE, 44, TRUE, fcb[1], fcb[2], fcb[3], TRUE, 144000,
                    144000 * fcb[2] * (fcb[3] \div 8), 0, TRUE, TRUE,
                    Everywhere(Silence)) :
             fcb \in {<<1, 2, 16>>, <<1, 1, 8>>, <<3, 1, 32>>, <<1, 1, 24>>,
                      <<1, 0, 16>>, <<1, 1, 4>>}}
    \cup {WavOnDisk(TRUE, 44, TRUE, 1, 1, 16, TRUE, 3000, 288000, 0, TRUE, TRUE,
                    Everywhere(Silence)),
          WavOnDisk(TRUE, 44, TRUE, 1, 1, 16, TRUE, 144000, 288000, 0, FALSE, TRUE,
                    Everywhere(Silence)),
          WavOnDisk(TRUE, 44, TRUE, 1, 1, 16, TRUE, 144000, 288000, 0, TRUE, FALSE,
                    Everywhere(Silence)),
          WavOnDisk(TRUE, 44, FALSE, 1, 1, 16, TRUE, 144000, 288000, 0, TRUE, TRUE,
                    Everywhere(Silence)),
          WavOnDisk(TRUE, 20, TRUE, 1, 1, 16, FALSE, 0, 0, -1, TRUE, TRUE,
                    Everywhere(Silence)),
          Missing}

\* Bytes a short f_write of a burst leaves in the file.
ShortWrites == {0, 100}

\* Recordings the operator is followed for.
MaxCycles == 2

\* What the estimator hears in memory that no read filled.
Heaps == {Silence, Clear(44000)}

\* Thresholds (1/10000): at and around the 0.05 floor of the retry, and the
\* 0.15 main uses.
Thresholds == {400, 500, 600, 1500}

Probes ==
    {[routine |-> r, f |-> f, startSample |-> s, numSamples |-> n, threshold |-> th] :
        r \in {"detect_pitch_from_sd", "detectPitchFromWav"}, f \in ProbeFiles,
        s \in {-1, 0, 22050, 143000, 150000}, n \in {0, 1024}, th \in Thresholds}

NoProbe == [routine |-> "none", f |-> Missing, startSample |-> 0, numSamples |-> 0,
            threshold |-> 0]

\* main's locals and statics at the top of its loop after start-up.
\* recordings counts the runs of state 2; detected_for and vocoded_for are
\* the recording for which the detection of state 3 and the vocoder of state
\* 4 last ran (0: never).
PowerOn ==
    [state |-> 0, prev_sw |-> 0, pitch_done |-> FALSE, vocoder_done |-> FALSE,
     target_pitch_ratio |-> RUnit, recorded_pitch |-> 0, reference_pitch |-> 0,
     ref_note_class |-> 0, target_freq |-> -1, rec_detected |-> FALSE,
     ref_detected |-> FALSE, passed |-> 0, saved |-> FALSE, ran |-> "none",
     recordings |-> 0, detected_for |-> 0, vocoded_for |-> 0]

-----------------------------------------------------------------------------
(* The state machine *)

NoCall == [op |-> "none", nsamples |-> U32(0), fs |-> U32(0), bits |-> 0, ch |-> 0]

\* A capture is about to start: no buffer, no file.
InitCapture ==
    /\ buf = NoBuffer /\ file = <<>> /\ fileBy = "none"
    /\ call = NoCall /\ loaded = NoLoad
    /\ input = NoSignal /\ shifted = NoShift
    /\ tuner = PowerOn /\ probe = NoProbe /\ detected = NoResult /\ phase = NoPhase
    /\ capture = NoCapture

\* The caller holds a buffer to save.
InitSave ==
    /\ buf \in Buffers /\ file = <<>> /\ fileBy = "none"
    /\ call = NoCall /\ loaded = NoLoad
    /\ input = NoSignal /\ shifted = NoShift
    /\ tuner = PowerOn /\ probe = NoProbe /\ detected = NoResult /\ phase = NoPhase
    /\ capture = NoCapture

\* A file is on storage.
InitLoad ==
    /\ buf = NoBuffer /\ file \in GivenFiles /\ fileBy = "given"
    /\ call = NoCall /\ loaded = NoLoad
    /\ input = NoSignal /\ shifted = NoShift
    /\ tuner = PowerOn /\ probe = NoProbe /\ detected = NoResult /\ phase = NoPhase
    /\ capture = NoCapture

\* A buffer is about to be pitch shifted.
InitEngine ==
    /\ buf = NoBuffer /\ file = <<>> /\ fileBy = "none"
    /\ call = NoCall /\ loaded = NoLoad
    /\ input \in Signals /\ shifted = NoShift
    /\ tuner = PowerOn /\ probe = NoProbe /\ detected = NoResult /\ phase = NoPhase
    /\ capture = NoCapture

\* A buffer is about to be pitch shifted with memory running out.
InitEngineFault ==
    /\ buf = NoBuffer /\ file = <<>> /\ fileBy = "none"
    /\ call = NoCall /\ loaded = NoLoad
    /\ input \in FaultSignals /\ shifted = NoShift
    /\ tuner = PowerOn /\ probe = NoProbe /\ detected = NoResult /\ phase = NoPhase
    /\ capture = NoCapture

\* A phase is about to be wrapped.
InitWrap ==
    /\ buf = NoBuffer /\ file = <<>> /\ fileBy = "none"
    /\ call = NoCall /\ loaded = NoLoad
    /\ input = NoSignal /\ shifted = NoShift
    /\ tuner = PowerOn /\ probe = NoProbe /\ detected = NoResult
    /\ phase \in {[in |-> x, out |-> 0, wrapped |-> FALSE] : x \in Phases}
    /\ capture = NoCapture

\* A detection is about to be called.
InitDetect ==
    /\ buf = NoBuffer /\ file = <<>> /\ fileBy = "none"
    /\ call = NoCall /\ loaded = NoLoad
    /\ input = NoSignal /\ shifted = NoShift
    /\ tuner = PowerOn /\ probe \in Probes /\ detected = NoResult /\ phase = NoPhase
    /\ capture = NoCapture

\* main enters its loop.
InitTuner ==
    /\ buf = NoBuffer /\ file = <<>> /\ fileBy = "none"
    /\ call = NoCall /\ loaded = NoLoad
    /\ input = NoSignal /\ shifted = NoShift
    /\ tuner = PowerOn /\ probe = NoProbe /\ detected = NoResult /\ phase = NoPhase
    /\ capture = NoCapture

\* State 2 is about to open rec.wav.
InitRecord ==
    /\ buf = NoBuffer /\ file = <<>> /\ fileBy = "recording"
    /\ call = NoCall /\ loaded = NoLoad
    /\ input = NoSignal /\ shifted = NoShift
    /\ tuner = PowerOn /\ probe = NoProbe /\ detected = NoResult /\ phase = NoPhase
    /\ capture = NoCapture

InitCodec == InitCapture \/ InitSave \/ InitLoad

Init ==
    \/ InitCodec \/ InitEngine \/ InitEngineFault \/ InitWrap \/ InitDetect
    \/ InitTuner \/ InitRecord

\* sd_open_wav: creates the file and writes the header of wav_header.
SdOpenWav ==
    /\ buf = NoBuffer /\ fileBy = "none" /\ input.isNull
    /\ \E nsamples \in HeaderCounts, fs \in HeaderRates,
          bits \in HeaderBits, ch \in HeaderChans :
          /\ file' = wav_header(nsamples, fs, bits, ch)
          /\ call' = [op |-> "sd_open_wav", nsamples |-> nsamples, fs |-> fs,
                      bits |-> bits, ch |-> ch]
    /\ fileBy' = "sd_open_wav"
    /\ UNCHANGED <<buf, loaded, input, shifted, tuner, probe, detected, phase, capture>>

\* save_wav_to_sd(filename, buf) returning 0.
SaveWavToSd ==
    /\ ~buf.isNull /\ loaded = NoLoad
    /\ file' = save_wav_to_sd(buf)
    /\ fileBy' = "save_wav_to_sd"
    /\ call' = [op |-> "save_wav_to_sd", nsamples |-> U32(buf.length),
                fs |-> U32(buf.sample_rate), bits |-> 16, ch |-> 1]
    /\ UNCHANGED <<buf, loaded, input, shifted, tuner, probe, detected, phase, capture>>

\* write_wav_file(filename, buf) returning 0.
WriteWavFile ==
    /\ ~buf.isNull /\ loaded = NoLoad
    /\ file' = write_wav_file(buf)
    /\ fileBy' = "write_wav_file"
    /\ call' = [op |-> "write_wav_file", nsamples |-> U32(buf.length),
                fs |-> U32(buf.sample_rate), bits |-> 32, ch |-> 1]
    /\ UNCHANGED <<buf, loaded, input, shifted, tuner, probe, detected, phase, capture>>

\* A file that has been closed: sd_open_wav leaves its file open for the
\* capture, which patches the header before anything reads it.
Readable == fileBy \in {"given", "save_wav_to_sd", "write_wav_file"}

\* load_wav_from_sd(filename).
LoadWavFromSd ==
    /\ Readable
    /\ loaded' = load_wav_from_sd(file)
    /\ UNCHANGED <<buf, file, fileBy, call, input, shifted, tuner, probe, detected, phase, capture>>

\* read_wav_file(filename).
ReadWavFile ==
    /\ Readable /\ Len(file) >= 36
    /\ \E stack \in Stacks : loaded' = read_wav_file(file, stack)
    /\ UNCHANGED <<buf, file, fileBy, call, input, shifted, tuner, probe, detected, phase, capture>>

\* phase_vocoder_pitch_shift(input, pitch_ratio).
PhaseVocoderPitchShift ==
    /\ ~input.isNull /\ shifted = NoShift
    /\ \E ratio \in Ratios : shifted' = phase_vocoder_pitch_shift(input, ratio)
    /\ UNCHANGED <<buf, file, fileBy, call, loaded, input, tuner, probe, detected, phase, capture>>

\* psola_pitch_shift(input, pitch_ratio).
PsolaPitchShift ==
    /\ ~input.isNull /\ shifted = NoShift
    /\ \E ratio \in Ratios : shifted' = psola_pitch_shift(input, ratio)
    /\ UNCHANGED <<buf, file, fileBy, call, loaded, input, tuner, probe, detected, phase, capture>>

\* phase_vocoder_pitch_shift(input, pitch_ratio), one allocation failing.
PhaseVocoderAllocFails ==
    /\ ~input.isNull /\ shifted = NoShift
    /\ \E ratio \in Ratios, failed \in PvAllocations, access \in NullAccess :
          shifted' = phase_vocoder_alloc_fails(input, ratio, failed, access)
    /\ UNCHANGED <<buf, file, fileBy, call, loaded, input, tuner, probe, detected, phase, capture>>

\* psola_pitch_shift(input, pitch_ratio), one allocation failing; with fewer
\* than 2 marks only the input marks are allocated.
PsolaAllocFails ==
    /\ ~input.isNull /\ shifted = NoShift
    /\ \E ratio \in Ratios, failed \in PsolaAllocations, access \in NullAccess :
          /\ (failed \in {"input_marks", "input_marks->positions"}
              \/ ~TooFewMarks(detect_pitch_marks(input)))
          /\ shifted' = psola_alloc_fails(input, ratio, failed, access)
    /\ UNCHANGED <<buf, file, fileBy, call, loaded, input, tuner, probe, detected, phase, capture>>

\* wrap_phase(phase).
WrapPhase ==
    /\ ~phase.wrapped /\ probe = NoProbe /\ input.isNull /\ fileBy = "none"
    /\ buf = NoBuffer
    /\ phase' = [in |-> phase.in, out |-> wrap_phase(phase.in), wrapped |-> TRUE]
    /\ UNCHANGED <<buf, file, fileBy, call, loaded, input, shifted, tuner, probe,
                   detected, capture>>

\* detect_pitch_from_sd(filename, startSample, numSamples, threshold, &result).
DetectPitchFromSd ==
    /\ probe.routine = "detect_pitch_from_sd" /\ detected = NoResult
    /\ \E heap \in Heaps :
          detected' = detect_pitch_from_sd(probe.f, probe.startSample,
                                           probe.numSamples, probe.threshold, heap)
    /\ UNCHANGED <<buf, file, fileBy, call, loaded, input, shifted, tuner, probe, phase, capture>>

\* detectPitchFromWav(filename, startSample, numSamples, threshold, &result).
DetectPitchFromWav ==
    /\ probe.routine = "detectPitchFromWav" /\ detected = NoResult
    /\ \E div0 \in DivByZero :
          detected' = detectPitchFromWav(probe.f, probe.startSample,
                                         probe.numSamples, probe.threshold, div0)
    /\ UNCHANGED <<buf, file, fileBy, call, loaded, input, shifted, tuner, probe, phase, capture>>

\* One iteration of the loop of main: the files are read in state 3 only,
\* the load and the engine run in state 4 only.  The operator is followed
\* for MaxCycles recordings.
MainLoopIteration ==
    /\ probe = NoProbe /\ input.isNull /\ fileBy = "none" /\ buf = NoBuffer
    /\ \E sw \in {0, 1} :
          LET state == Pressed(tuner, sw).state
          IN  /\ state = 2 => tuner.recordings < MaxCycles
              /\ \/ /\ state = 3
                    /\ \E rec \in RecFiles, ref \in RefFiles, heap \in Heaps :
                          tuner' = MainLoop(tuner, sw, rec, ref, heap, FALSE, FALSE)
                 \/ /\ state = 4
                    /\ \E loads \in BOOLEAN, shifts \in BOOLEAN :
                          tuner' = MainLoop(tuner, sw, Missing, Missing, Silence,
                                            loads, shifts)
                 \/ /\ state \notin {3, 4}
                    /\ tuner' = MainLoop(tuner, sw, Missing, Missing, Silence,
                                         FALSE, FALSE)
    /\ UNCHANGED <<buf, file, fileBy, call, loaded, input, shifted, probe, detected, phase, capture>>

\* main, state 2: sd_open_wav returns 0 or not (main then returns).
SdOpenRecording ==
    /\ fileBy = "recording" /\ capture.pc = "idle"
    /\ \E opened \in BOOLEAN :
          capture' = IF opened THEN OpenRecording(capture)
                     ELSE [capture EXCEPT !.pc = "exit"]
    /\ UNCHANGED <<buf, file, fileBy, call, loaded, input, shifted, tuner, probe,
                   detected, phase>>

\* main, state 2: one iteration of while (samples_written < TOTAL_SAMPLES).
RecordingBurst ==
    /\ capture.pc = "loop" /\ capture.samples_written < TOTAL_SAMPLES
    /\ \/ capture' = RecordBurst(capture, FALSE, TRUE, 0)
       \/ capture' = RecordBurst(capture, TRUE, TRUE,
                                  2 * BurstChunk(capture.samples_written))
       \/ \E fr_ok \in BOOLEAN, bw \in ShortWrites :
             capture' = RecordBurst(capture, TRUE, fr_ok, bw)
    /\ UNCHANGED <<buf, file, fileBy, call, loaded, input, shifted, tuner, probe,
                   detected, phase>>

\* main, state 2: sd_fix_header(&f, samples_written, FS, OUT_BITS, CHANNELS)
\* and f_close.
SdFixHeader ==
    /\ capture.pc = "patch"
    /\ capture' = [sd_fix_header(capture, U32(capture.samples_written), U32(FS),
                                 OUT_BITS, CHANNELS) EXCEPT !.pc = "closed"]
    /\ UNCHANGED <<buf, file, fileBy, call, loaded, input, shifted, tuner, probe,
                   detected, phase>>

NextRecord == SdOpenRecording \/ RecordingBurst \/ SdFixHeader

NextCodec == SdOpenWav \/ SaveWavToSd \/ WriteWavFile \/ LoadWavFromSd \/ ReadWavFile

NextEngine == PhaseVocoderPitchShift \/ PsolaPitchShift

NextEngineFault == PhaseVocoderAllocFails \/ PsolaAllocFails

NextWrap == WrapPhase

NextDetect == DetectPitchFromSd \/ DetectPitchFromWav

NextTuner == MainLoopIteration

Next ==
    \/ NextCodec \/ NextEngine \/ NextEngineFault \/ NextWrap \/ NextDetect
    \/ NextTuner \/ NextRecord

Spec == Init /\ [][Next]_vars

\* The codec alone and the engines alone: the scenarios of Init do not mix.
CodecSpec == InitCodec /\ [][NextCodec]_vars

EngineSpec == InitEngine /\ [][NextEngine]_vars

EngineFaultSpec == InitEngineFault /\ [][NextEngineFault]_vars

WrapSpec == InitWrap /\ [][NextWrap]_vars

DetectSpec == InitDetect /\ [][NextDetect]_vars

TunerSpec == InitTuner /\ [][NextTuner]_vars

RecordSpec == InitRecord /\ [][NextRecord]_vars

-----------------------------------------------------------------------------
(* Properties *)

\* What a header declares (the fmt fields sit at fixed offsets).
FormatTag(f) == U16Val(ReadAt(f, 20, 2))
Channels(f) == U16Val(ReadAt(f, 22, 2))
BitsPerSample(f) == U16Val(ReadAt(f, 34, 2))

\* 16-bit linear PCM or 32-bit IEEE float.
SupportedFormat(f) ==
    \/ FormatTag(f) = 1 /\ BitsPerSample(f) = 16
    \/ FormatTag(f) = 3 /\ BitsPerSample(f) = 32

\* The offset of the payload of the first chunk tagged "data" among the
\* chunks from pos on; -1 when there is none.
RECURSIVE DataOffset(_, _)
DataOffset(f, pos) ==
    LET h == ReadAt(f, pos, 8)
    IN  IF Len(h) # 8 THEN -1
        ELSE IF SubSeq(h, 1, 4) = TagData THEN pos + 8
        ELSE DataOffset(f, pos + 8 + U32Val(SubSeq(h, 5, 8)))

\* An engine has returned a buffer.
Shifted == shifted.ret = "buffer"

\* C1: whenever phase_vocoder_pitch_shift or psola_pitch_shift returns a
\* buffer, its length is the input's length and its sample_rate is the
\* input's sample_rate (and it holds that many samples).
C1_LengthAndRatePreserved ==
    Shifted =>
        /\ shifted.abuf.length = input.length
        /\ shifted.abuf.sample_rate = input.sample_rate
        /\ Len(shifted.abuf.data) = input.length

\* PSOLA has shifted a 3100-sample buffer at 48000 Hz by a ratio that is
\* clamped.
C1_Witness ==
    /\ Shifted /\ shifted.by = "psola_pitch_shift"
    /\ shifted.ratio = 2500
    /\ input.length = 3100 /\ input.sample_rate = 48000
    /\ shifted.abuf.length = 3100

\* C2: every sample of a buffer returned by an engine has absolute value at
\* most 1.0.
C2_SamplesWithinUnit ==
    Shifted => \A i \in DOMAIN shifted.abuf.data : Abs(shifted.abuf.data[i]) <= SUnit

\* The phase vocoder has returned a buffer whose peak is 0.9: the frames
\* added up to more than 1.0 before the normalization.
C2_Witness ==
    /\ Shifted /\ shifted.by = "phase_vocoder_pitch_shift"
    /\ input.amps = <<700, -2500>>
    /\ MaxAbs(shifted.abuf.data) = (9 * SUnit) \div 10

\* C3: for a buffer whose samples lie in [-1, 1], save_wav_to_sd followed by
\* load_wav_from_sd returns a buffer of the same length whose samples differ
\* from the originals by at most 1/32768.
C3_Pcm16RoundTrip ==
    (/\ fileBy = "save_wav_to_sd" /\ loaded.by = "load_wav_from_sd"
     /\ \A i \in DOMAIN buf.data : Abs(buf.data[i]) <= Q16)
    => /\ loaded.ret = "buffer"
       /\ loaded.abuf.length = buf.length
       /\ Len(loaded.abuf.data) = buf.length
       /\ \A i \in DOMAIN buf.data :
             Abs(loaded.abuf.data[i] - buf.data[i]) <= Q16 \div 32768

\* C4: write_wav_file followed by read_wav_file returns a buffer with the
\* same length, the same sample_rate and exactly the same samples.
C4_Float32RoundTrip ==
    (fileBy = "write_wav_file" /\ loaded.by = "read_wav_file")
    => /\ loaded.ret = "buffer"
       /\ loaded.abuf.length = buf.length
       /\ loaded.abuf.sample_rate = buf.sample_rate
       /\ loaded.abuf.data = buf.data

\* A two-sample buffer with a sample beyond full scale has made the trip.
C4_Witness ==
    /\ fileBy = "write_wav_file" /\ loaded.by = "read_wav_file"
    /\ loaded.ret = "buffer"
    /\ buf.data = <<-70000, Q16 - 1>>
    /\ loaded.abuf.data = <<-70000, Q16 - 1>>

\* C5: psola_pitch_shift returns NULL, and no buffer, for every input on
\* which detect_pitch_marks yields fewer than 2 marks.
C5_NullOnFewMarks ==
    (shifted.by = "psola_pitch_shift" /\ Len(detect_pitch_marks(input)) < 2)
    => shifted.ret = "NULL" /\ shifted.abuf = NoBuffer

\* PSOLA has been called on 200 samples, where the only mark is 0.
C5_Witness ==
    /\ shifted.by = "psola_pitch_shift" /\ shifted.ret = "NULL"
    /\ input.length = 200
    /\ detect_pitch_marks(input) = <<0>>

\* C6: the header a save writes is 44 bytes with RIFF size = 36 + data size,
\* fmt chunk size = 16, block align = channels x bytes per sample (mod 2^16),
\* byte rate = sample rate x channels x bytes per sample and data size =
\* sample count x block align (mod 2^32).
C6_HeaderFields ==
    fileBy \in {"sd_open_wav", "save_wav_to_sd", "write_wav_file"} =>
        LET bytesPerSample == call.bits \div 8
            blockAlign     == (call.ch * bytesPerSample) % 65536
            dataSize       == Mul32(call.nsamples, U32(blockAlign))
        IN  /\ Len(file) >= 44
            /\ fileBy = "sd_open_wav" => Len(file) = 44
            /\ fileBy # "sd_open_wav" => Len(file) = 44 + U32Val(dataSize)
            /\ SubSeq(file, 37, 40) = TagData
            /\ SubSeq(file, 5, 8) = Add32(U32(36), dataSize)
            /\ SubSeq(file, 17, 20) = U32(16)
            /\ SubSeq(file, 33, 34) = LE16(blockAlign)
            /\ SubSeq(file, 29, 32) =
                   Mul32(Mul32(call.fs, U32(call.ch)), U32(bytesPerSample))
            /\ SubSeq(file, 41, 44) = dataSize

\* sd_open_wav has written the header of 2^31 stereo 16-bit samples: the
\* data size wraps to 0 and the RIFF size is 36.
C6_Witness ==
    /\ fileBy = "sd_open_wav"
    /\ call.nsamples = <<0, 0, 0, 128>> /\ call.ch = 2 /\ call.bits = 16
    /\ SubSeq(file, 41, 44) = <<0, 0, 0, 0>>
    /\ SubSeq(file, 5, 8) = <<36, 0, 0, 0>>

\* C7: a load returns a buffer only for format tag 1 with 16 bits or tag 3
\* with 32 bits, and NULL for every other combination.
C7_OnlySupportedFormats ==
    (fileBy = "given" /\ loaded.by # "none") =>
        /\ loaded.ret = "buffer" => SupportedFormat(file)
        /\ ~SupportedFormat(file) => loaded.ret = "NULL"

\* C8: a load returns NULL when the magic is not "RIFF", the form type is
\* not "WAVE" or the tag of the format chunk is not "fmt ".
C8_BadTagsRejected ==
    (/\ fileBy = "given" /\ loaded.by # "none"
     /\ \/ ReadAt(file, 0, 4) # TagRIFF
        \/ ReadAt(file, 8, 4) # TagWAVE
        \/ ReadAt(file, 12, 4) # TagFmt)
    => loaded.ret = "NULL"

\* C9: a load of a file without a chunk tagged "data" returns NULL and no
\* buffer.
C9_NoDataChunkRejected ==
    (fileBy = "given" /\ loaded.by # "none" /\ DataOffset(file, 12) < 0)
    => loaded.ret = "NULL" /\ loaded.abuf = NoBuffer

\* C10: a load that returns a buffer returns one sample per frame: the
\* sample of a 1-channel frame converted to float (int16 / 32768, float
\* verbatim), the average of the two converted samples of a 2-channel frame.
C10_DownmixOnLoad ==
    (/\ fileBy = "given" /\ loaded.ret = "buffer"
     /\ SupportedFormat(file) /\ Channels(file) \in {1, 2}
     /\ DataOffset(file, 12) >= 0)
    => LET off    == DataOffset(file, 12)
           size   == U32Val(ReadAt(file, off - 4, 4))
           width  == BitsPerSample(file) \div 8
           ch     == Channels(file)
           frames == size \div (width * ch)
           word(k) == IF width = 2
                      THEN 2 * I16Val(ReadAt(file, off + 2 * k, 2))
                      ELSE F32Val(ReadAt(file, off + 4 * k, 4))
       IN  /\ loaded.abuf.length = frames
           /\ Len(loaded.abuf.data) = frames
           /\ \A i \in 1..frames :
                 loaded.abuf.data[i] =
                     IF ch = 2
                     THEN TruncDiv(word(2 * (i - 1)) + word(2 * (i - 1) + 1), 2)
                     ELSE word(i - 1)

\* C11: a load of a file whose header declares 0 channels or fewer than 8
\* bits per sample returns NULL: it neither divides by zero nor returns a
\* buffer built from the unchecked header.
C11_HeaderValidated ==
    (/\ fileBy = "given" /\ loaded.by # "none"
     /\ (Channels(file) = 0 \/ BitsPerSample(file) < 8))
    => loaded.ret = "NULL"

\* C12: the ratio main hands to phase_vocoder_pitch_shift lies in
\* [0.5, 2.0].
C12_CallerClampsRatio ==
    tuner.passed # 0 => (tuner.passed >= 500 /\ tuner.passed <= 2000)

\* The note frequencies of pitch class c with MIDI number in 12 .. 108.
ClassNotes(c) == {get_note_frequency(m) : m \in {n \in 12..108 : n % 12 = c}}

\* C13: with both pitches detected, the target found is the highest note
\* of the reference's class in 12 .. 108 strictly below the recorded
\* frequency when recorded > reference, and the lowest one strictly above
\* it when recorded < reference.
C13_ClosestClassNote ==
    (tuner.ran = "detect" /\ tuner.rec_detected /\ tuner.ref_detected)
    => LET notes == ClassNotes(tuner.ref_note_class)
           below == {f \in notes : f < tuner.recorded_pitch}
           above == {f \in notes : f > tuner.recorded_pitch}
       IN  /\ (tuner.recorded_pitch > tuner.reference_pitch /\ below # {})
               => (tuner.target_freq \in below
                   /\ \A f \in below : f <= tuner.target_freq)
           /\ (tuner.recorded_pitch < tuner.reference_pitch /\ above # {})
               => (tuner.target_freq \in above
                   /\ \A f \in above : f >= tuner.target_freq)

\* C14: when the recorded or the reference pitch was not detected, or no
\* target note was found (target 0), target_pitch_ratio is exactly 1.0, and
\* so is the ratio the vocoder run that follows hands to the engine.
C14_RatioOneOnMiss ==
    (~tuner.rec_detected \/ ~tuner.ref_detected \/ tuner.target_freq = 0)
    => /\ tuner.target_pitch_ratio = RUnit
       /\ (tuner.ran = "vocode" /\ tuner.passed # 0) => tuner.passed = RUnit

C14_Witness ==
    /\ tuner.ran = "detect" /\ tuner.rec_detected /\ tuner.ref_detected
    /\ tuner.target_freq = 0 /\ tuner.target_pitch_ratio = RUnit

\* C15: a detection that reports a miss has run exactly two estimator
\* passes, the second with half the threshold of the first.
C15_OneHalvedRetry ==
    (detected.ret = 0 /\ detected.passes >= 1 /\ detected.pitch <= 0)
    => /\ detected.passes = 2
       /\ detected.thresholds[2] = detected.thresholds[1] \div 2

\* The file opens, is 8- or 16-bit PCM of 1 or 2 channels with its tags in
\* place, and holds the data its header declares.
WellFormedWav(f) ==
    /\ f.opens /\ f.header_bytes = 44 /\ f.magic_ok /\ f.has_data
    /\ f.audioFormat = 1 /\ f.numChannels \in {1, 2} /\ f.bitsPerSample \in {8, 16}
    /\ f.chunkSize = f.frames * f.numChannels * (f.bitsPerSample \div 8)
    /\ f.read_ok

\* C16: on a well-formed file and a start sample inside its data, a
\* detection whose estimator ran and found no pitch returns 0 with pitch
\* -1 in the result, never -1.
C16_MissIsSuccess ==
    (/\ WellFormedWav(probe.f)
     /\ probe.startSample >= 0 /\ probe.startSample < probe.f.frames
     /\ detected.passes >= 1 /\ detected.pitch <= 0)
    => detected.ret = 0 /\ detected.pitch = -Hz /\ ~detected.fault

C16_Witness ==
    /\ probe.routine = "detectPitchFromWav" /\ WellFormedWav(probe.f)
    /\ probe.startSample = 0 /\ probe.f.frames < 44100
    /\ detected.passes = 1 /\ detected.pitch = -Hz /\ detected.ret = 0

\* C17: an engine call in which an allocation fails returns NULL and
\* neither reads nor writes through the failed allocation.
C17_AllocFailureReturnsNull ==
    shifted.failed # "none" => (shifted.ret = "NULL" /\ ~shifted.deref)

\* A mark sequence starts with 0, is strictly increasing and holds, after
\* the first, only positions below length.
MarksInOrder(marks, length) ==
    /\ Len(marks) >= 1 /\ marks[1] = 0
    /\ \A i \in 1..(Len(marks) - 1) : marks[i] < marks[i + 1]
    /\ \A i \in 2..Len(marks) : marks[i] < length

\* The output marks psola_pitch_shift builds from the input marks.
OutputMarks(sig, pitch_ratio) ==
    OutputMarkLoop(sig.length, Periods(detect_pitch_marks(sig)),
                   ClampRatio(pitch_ratio), 0, 0, <<0>>)

\* C18: after a call of psola_pitch_shift, the input marks of
\* detect_pitch_marks and, when there are at least 2 of them, the output
\* marks start with 0, are strictly increasing and lie below the input
\* length.
C18_MarksInOrder ==
    shifted.by = "psola_pitch_shift"
    => /\ MarksInOrder(detect_pitch_marks(input), input.length)
       /\ ~TooFewMarks(detect_pitch_marks(input))
            => MarksInOrder(OutputMarks(input, shifted.ratio), input.length)

C18_Witness ==
    /\ shifted.by = "psola_pitch_shift" /\ Shifted
    /\ input.length = 3100 /\ input.pitch = 32 /\ shifted.ratio = 1500
    /\ Len(detect_pitch_marks(input)) > 10
    /\ Len(OutputMarks(input, shifted.ratio)) > Len(detect_pitch_marks(input))

\* C20: in a call of phase_vocoder_pitch_shift every read of the input is
\* at an index in [0, length), every overlap-add write at an index in
\* [0, stretched_length), output_pos is at most stretched_length, and the
\* reads of the normalization and of the resampling are below
\* stretched_length.
C20_VocoderIndicesInBounds ==
    shifted.by = "phase_vocoder_pitch_shift"
    => LET t == PvIndexTrace(input, shifted.ratio)
       IN  /\ \A rd \in t.input_reads : rd.lo >= 0 /\ rd.hi < input.length
           /\ \A wr \in t.temp_writes : wr.lo >= 0 /\ wr.hi < t.stretched_length
           /\ t.output_pos <= t.stretched_length
           /\ t.norm_reads.lo >= 0 /\ t.norm_reads.hi < t.stretched_length
           /\ \A rd \in t.resample_reads : rd.lo >= 0 /\ rd.hi < t.stretched_length

C20_Witness ==
    /\ shifted.by = "phase_vocoder_pitch_shift" /\ Shifted
    /\ input.length = 3100
    /\ Len(PvIndexTrace(input, shifted.ratio).frames) = 2
    /\ PvIndexTrace(input, shifted.ratio).resample_reads # {}

\* C19: wrap_phase returns a value in (-pi, pi]: greater than -pi, never
\* equal to -pi, at most pi, and equal to the input minus a multiple of
\* 2 pi up to the rounding of each step (half a float spacing).
C19_WrappedIntoHalfOpenInterval ==
    phase.wrapped
    => /\ phase.out > -M_PI /\ phase.out # -M_PI /\ phase.out <= M_PI
       /\ \E k \in (-MaxPhase)..MaxPhase :
             Abs(phase.out - (phase.in - k * 2 * M_PI)) <= Abs(k) * (Ulp \div 2)

C19_Witness ==
    /\ phase.wrapped /\ phase.in = -4 * Ulp /\ phase.in < -M_PI
    /\ phase.out = 3 * Ulp

\* C21: in a call of psola_pitch_shift that passes the mark check, the
\* size handed to extract_grain and overlap_add is at most the size of the
\* grain buffer, every input read and every output write is at an index in
\* [0, length), and every index into the input and the output mark array is
\* below the array's count.
C21_PsolaIndicesInBounds ==
    (shifted.by = "psola_pitch_shift" /\ ~TooFewMarks(detect_pitch_marks(input)))
    => LET t == PsolaIndexTrace(input, shifted.ratio)
       IN  \A i \in DOMAIN t.calls :
             /\ t.calls[i].local_grain_size <= t.grain_alloc
             /\ \A pos \in t.calls[i].reads \cup t.calls[i].writes :
                    pos >= 0 /\ pos < t.length
             /\ \A k \in t.calls[i].in_index : k >= 0 /\ k < t.input_count
             /\ t.calls[i].out_index >= 0 /\ t.calls[i].out_index < t.output_count

\* A grain at the start and a grain at the end of the input both reach
\* outside it, and one grain is shorter than the grain buffer.
C21_Witness ==
    /\ shifted.by = "psola_pitch_shift" /\ Shifted
    /\ input.length = 3100 /\ input.pitch = 700
    /\ LET t == PsolaIndexTrace(input, shifted.ratio)
       IN  /\ \E i \in DOMAIN t.calls :
                Cardinality(t.calls[i].reads) < t.calls[i].local_grain_size
           /\ \E i \in DOMAIN t.calls :
                /\ (t.length - 1) \in t.calls[i].writes
                /\ Cardinality(t.calls[i].writes) < t.calls[i].local_grain_size
           /\ \E i \in DOMAIN t.calls : t.calls[i].local_grain_size < t.grain_alloc

\* The run of the output mark loop in the call that produced shifted.
OutputRun(sig, pitch_ratio) ==
    OutputMarkRun(sig.length, Periods(detect_pitch_marks(sig)),
                  ClampRatio(pitch_ratio), 0, 0, <<0>>, MaxMarkSteps)

\* C22: with at least 2 input marks, the output mark loop of
\* psola_pitch_shift stops, consecutive positions it generates are at
\* least 20 samples apart, it stops only with the position at or past the
\* input length, and the marks it leaves are the positions below the length.
C22_OutputLoopCoversInput ==
    (shifted.by = "psola_pitch_shift" /\ ~TooFewMarks(detect_pitch_marks(input)))
    => LET run == OutputRun(input, shifted.ratio)
       IN  /\ run.stopped
           /\ run.out_pos >= input.length
           /\ \A i \in 1..(Len(run.positions) - 1) :
                 run.positions[i + 1] - run.positions[i] >= 20
           /\ OutputMarks(input, shifted.ratio)
                 = SelectSeq(run.positions, LAMBDA x : x < input.length)

\* The input periods run out before the input length is covered, so the
\* last period is reused, and one gap is the minimum of 20 samples.
C22_Witness ==
    /\ shifted.by = "psola_pitch_shift" /\ Shifted
    /\ LET run == OutputRun(input, shifted.ratio)
       IN  /\ run.stopped
           /\ run.steps > Len(detect_pitch_marks(input)) - 1
           /\ \E i \in 1..(Len(run.positions) - 1) :
                 run.positions[i + 1] - run.positions[i] = 20

\* The distance from input mark k (from 0) to the next input mark.
LocalPeriod(sig, k) ==
    detect_pitch_marks(sig)[k + 2] - detect_pitch_marks(sig)[k + 1]

\* C23 as stated: for every output mark whose nearest input mark has a
\* next mark, the grain has size 2 x the local period at that input mark,
\* bounded to [64, 4096].
C23_GrainTwiceLocalPeriod ==
    (shifted.by = "psola_pitch_shift" /\ ~TooFewMarks(detect_pitch_marks(input)))
    => LET t == PsolaIndexTrace(input, shifted.ratio)
       IN  \A i \in DOMAIN t.calls :
             t.calls[i].closest < t.input_count - 1
             => t.calls[i].local_grain_size
                  = Min(4096, Max(64, 2 * LocalPeriod(input, t.calls[i].closest)))

\* C23 amended: with G = 2 x the average period bounded to [64, 4096], the
\* grain of an output mark has size min(2 x local period, G) when its
\* nearest input mark has a next mark and the local period is above 20 and
\* below 2048, and size G otherwise.
C23_GrainCappedByAverage ==
    (shifted.by = "psola_pitch_shift" /\ ~TooFewMarks(detect_pitch_marks(input)))
    => LET t    == PsolaIndexTrace(input, shifted.ratio)
           last == detect_pitch_marks(input)[t.input_count]
           G    == Min(4096, Max(64, 2 * (last \div (t.input_count - 1))))
       IN  \A i \in DOMAIN t.calls :
             LET k == t.calls[i].closest
             IN  IF k < t.input_count - 1 /\ LocalPeriod(input, k) > 20
                    /\ LocalPeriod(input, k) < 2048
                 THEN t.calls[i].local_grain_size = Min(2 * LocalPeriod(input, k), G)
                 ELSE t.calls[i].local_grain_size = G

\* One grain is cut to G, one is twice a local period below G / 2, and one
\* sits at the last input mark.
C23_Witness ==
    /\ shifted.by = "psola_pitch_shift" /\ Shifted
    /\ LET t == PsolaIndexTrace(input, shifted.ratio)
       IN  /\ \E i \in DOMAIN t.calls :
                /\ t.calls[i].closest < t.input_count - 1
                /\ 2 * LocalPeriod(input, t.calls[i].closest) > t.calls[i].local_grain_size
           /\ \E i \in DOMAIN t.calls :
                /\ t.calls[i].closest < t.input_count - 1
                /\ 2 * LocalPeriod(input, t.calls[i].closest) = t.calls[i].local_grain_size
                /\ t.calls[i].local_grain_size < t.grain_alloc
           /\ \E i \in DOMAIN t.calls : t.calls[i].closest = t.input_count - 1

\* The samples the file holds from the start sample of the detection to the
\* end of its data.
Remaining == Max(0, probe.f.frames - detected.actualStartSample)

\* C25: when a detection hands a buffer to the estimator, a numSamples of 0
\* stands for 2048 samples, and result.numSamples is the requested count
\* when the file holds that many samples from the start sample and the
\* count of the remaining samples when it holds fewer.
C25_WindowWithinData ==
    (detected # NoResult /\ detected.ret = 0 /\ detected.passes > 0)
    => LET asked == IF probe.numSamples = 0 THEN 2048 ELSE probe.numSamples
       IN  detected.numSamples = Min(asked, Remaining)

\* C26: load_wav_from_sd returns a buffer or NULL for every file.
C26_LoadTerminates ==
    loaded.by = "load_wav_from_sd" => loaded.ret \in {"buffer", "NULL"}

\* The iteration of main's loop from tuner to tuner' saw no rising edge of
\* the switch.
NoPress == tuner'.prev_sw = 0 \/ tuner.prev_sw = 1

\* C27: the vocoder of state 4 runs only when the detection of state 3 has
\* run for the same recording, and the state counter leaves state 3 only in
\* an iteration that ran state 3 and leaves state 4 only in an iteration
\* that ran the vocoder.
C27_NoStateStepsPastItsWork ==
    [][/\ tuner'.ran = "vocode" => tuner'.detected_for = tuner'.recordings
       /\ (tuner.state = 3 /\ tuner'.state # 3) => tuner'.ran = "detect"
       /\ (tuner.state = 4 /\ tuner'.state # 4) => tuner'.ran = "vocode"]_vars

\* C28: from the second recording on, an iteration that runs state 3 runs
\* the detection for that recording, and an iteration that starts in state
\* 4 without a press of the switch runs the vocoder for that recording and
\* ends in state 5.
C28_SecondCycleRunsAgain ==
    [][tuner.recordings >= 2
       => /\ tuner'.ran = "detect" => tuner'.detected_for = tuner'.recordings
          /\ (tuner.state = 4 /\ NoPress)
               => /\ tuner'.ran = "vocode" /\ tuner'.state = 5
                  /\ tuner'.vocoded_for = tuner'.recordings]_vars

\* C30: when both pitches are detected and the recorded frequency equals
\* the reference frequency, target_pitch_ratio is 1.0.
C30_UnisonLeftUnshifted ==
    (/\ tuner.ran = "detect" /\ tuner.rec_detected /\ tuner.ref_detected
     /\ tuner.recorded_pitch = tuner.reference_pitch)
    => tuner.target_pitch_ratio = RUnit

\* The header bytes that hold the RIFF size and the data size (from 1).
SizeFields == (5..8) \cup (41..44)

\* The header patch runs in the step from capture to capture'.
Patching == capture.pc = "patch" /\ capture'.pc = "closed"

RECURSIVE FullBurstSamples(_, _, _)
FullBurstSamples(data, lo, hi) ==
    IF lo > hi THEN 0
    ELSE IF lo = hi
    THEN (IF data[lo].bytes = data[lo].asked THEN data[lo].bytes \div 2 ELSE 0)
    ELSE LET mid == (lo + hi) \div 2
         IN  FullBurstSamples(data, lo, mid) + FullBurstSamples(data, mid + 1, hi)

\* C29: samples_written never exceeds TOTAL_SAMPLES; once the recording
\* loop is left without a failure it equals TOTAL_SAMPLES, and once it is
\* left on a failure it equals the samples of the bursts written in full.
C29_SamplesWrittenExact ==
    /\ capture.samples_written <= TOTAL_SAMPLES
    /\ (capture.pc = "patch" /\ capture.failed = "none")
         => capture.samples_written = TOTAL_SAMPLES
    /\ capture.pc = "patch"
         => capture.samples_written
              = FullBurstSamples(capture.data, 1, Len(capture.data))

\* The loop is left after the last burst, which was cut to 128 samples.
C29_Witness ==
    /\ capture.pc = "patch" /\ capture.failed = "none"
    /\ capture.samples_written = TOTAL_SAMPLES
    /\ capture.data[Len(capture.data)] = [bytes |-> 256, asked |-> 256]

====
